---- MODULE Spec2Model ----
(***************************************************************************)
(* The resilient data-access layer of the property dashboard:             *)
(*   MemoryCache, EnhancedAPIUsageManager (sliding-window rate limiter    *)
(*   and usage tracking) and EnhancedRentCastManager (cache, rate check,  *)
(*   retry loop) of src/551_*_Homepage.py, and RentCastManager /          *)
(*   APIUsageManager of src/1_*_Homepage.py.                              *)
(*                                                                         *)
(* Time is counted in ticks of 0.1 s (Sec(n) is n seconds), so that the   *)
(* jitter factor random.uniform(0.1, 0.3) of the backoff is a whole       *)
(* number of ticks per second of delay.                                    *)
(***************************************************************************)
EXTENDS Integers, Sequences, FiniteSets, TLC

VARIABLES
    now,            \* time.time(), in ticks
    rate_limiter,   \* EnhancedAPIUsageManager.rate_limiter: key -> deque of timestamps
    cache,          \* MemoryCache._cache: key -> value (Absent when the key is not in the dict)
    timestamps,     \* MemoryCache._timestamps
    stats,          \* MemoryCache._stats: category -> CacheStats
    ledger,         \* rows of the table portal_api_usage
    pc,             \* position of the logical request: "idle", "loop", "net", "sleep"
    req,            \* the logical request being served: method, user_id, address
    attempt,        \* loop variable of _make_request_with_retry
    start_time,     \* start_time of the current attempt
    delay,          \* the pending time.sleep argument, in ticks
    ret,            \* what the last finished logical request returned
    nreq,           \* logical requests started so far
    nnet,           \* session.get calls made so far
    netCalls,       \* session.get calls of the current logical request
    rlChecks,       \* check_rate_limit calls of the current logical request
    tracked,        \* track_api_call calls of the current logical request
    sleeps,         \* time.sleep calls of the current logical request
    responses,      \* history: what session.get answered in the current logical request
    admitted,       \* history: key -> every timestamp at which check_rate_limit returned True
    writer,         \* history: cache key -> user_id of the request that stored the entry
    set_category,   \* history: cache key -> the category argument of the set that stored it
    tpc,            \* threads of the limiter: position inside check_rate_limit
    tkey,           \* threads of the limiter: the key of the call
    tws,            \* threads of the limiter: local window_start
    api_usage,      \* 1_Homepage: rows of the table api_usage
    st_cache,       \* 1_Homepage: entries of st.cache_data around search_properties_enhanced
    rate_check,     \* 1_Homepage: what APIUsageManager.check_rate_limit returned last
    memory_cache,   \* 1_Homepage: CacheManager.memory_cache
    cache_stats,    \* 1_Homepage: CacheManager.cache_stats
    get_memo,       \* 1_Homepage: entries of st.cache_data around get_user_cache
    spc,            \* 1_Homepage sessions: position of each session in its request
    sreq,           \* 1_Homepage sessions: user and time of the session's rate check
    srate,          \* 1_Homepage sessions: what check_rate_limit returned to the session
    ledger_admitted, \* history: per user, the times of the rate checks that allowed
    db_failed,      \* history: a query or insert of a session has raised
    th,             \* 551_Homepage threads: position and locals of each thread's request
    lock,           \* 551_Homepage threads: the holder of MemoryCache._lock, or "free"
    val_by,         \* history: per cache key, the thread that stored the value
    ts_by,          \* history: per cache key, the thread that stored the timestamp
    db_up,          \* 551_Homepage: the table portal_api_usage accepts inserts and queries
    at_call,        \* history: the cache as the current request of 551_Homepage found it
    usage,          \* App: the column queries of the table usage, per email
    apc,            \* App sessions: position of each session in fetch_property_details
    aloc,           \* App sessions: the email and the count that the session has read
    fetched,        \* history: per email, the upstream requests answered 200
    sent,           \* history: per email, the count stored when the last request was sent
    authenticated,  \* login: st.session_state.authenticated
    user_role,      \* login: st.session_state.user_role
    token,          \* login: st.session_state.token
    login_attempts, \* login: st.session_state.login_attempts
    idp_calls,      \* history: calls of the identity provider by the last handle_login
    login_ret,      \* history: what the last handle_login did
    mc              \* MemoryCache called by threads: each thread's statement and locals

vars == <<now, rate_limiter, cache, timestamps, stats, ledger, pc, req, attempt,
          start_time, delay, ret, nreq, nnet, netCalls, rlChecks, tracked, sleeps,
          responses, admitted, writer, set_category, tpc, tkey, tws, api_usage,
          st_cache, rate_check, memory_cache, cache_stats, get_memo, spc, sreq, srate,
          ledger_admitted, db_failed, th, lock, val_by, ts_by, db_up, at_call, usage, apc,
          aloc, fetched, sent, authenticated, user_role, token, login_attempts, idp_calls,
          login_ret, mc>>

clientVars == <<cache, timestamps, stats, ledger, pc, req, attempt, start_time,
                delay, ret, nreq, nnet, netCalls, rlChecks, tracked, sleeps, responses,
                writer, set_category>>

threadVars == <<tpc, tkey, tws>>

searchVars == <<api_usage, st_cache, rate_check>>

userCacheVars == <<memory_cache, cache_stats, get_memo>>

\* the variables of the specifications of concurrent sessions and threads
ledgerVars == <<spc, sreq, srate, ledger_admitted, db_failed>>

sharedVars == <<th, lock, val_by, ts_by>>

envVars == <<db_up>>

callVars == <<at_call>>

\* the variables of App
appVars == <<usage, apc, aloc, fetched, sent>>

\* the variables of login
loginVars == <<authenticated, user_role, token, login_attempts, idp_calls, login_ret>>

\* the variables of MemoryCache's callers, statement by statement
stmtVars == <<mc>>

pagesVars == <<appVars, loginVars, stmtVars>>

sessionVars == <<ledgerVars, sharedVars, envVars, callVars, pagesVars>>

----------------------------------------------------------------------------
(* Bounds of the model *)

\* limit_per_minute of check_rate_limit (default 60), scaled down; it stays above
\* max_retries + 1, so that one logical request fits into an empty window
Quota == 4

\* logical requests per behaviour
MaxRequests == 2

\* network calls per behaviour
MaxNetCalls == 4

\* the clock stops advancing here (ticks)
MaxTime == 700

\* no time.sleep and no timeout ends later than this (ticks)
SleepMaxTime == 3100

\* logical requests per behaviour where every outcome of session.get is explored
MaxRetryRequests == 1

----------------------------------------------------------------------------
(* Program constants *)

WindowSeconds == 60

max_retries == 3

base_delay == 1

max_delay == 60

ConnectionBaseDelay == 2

RequestTimeout == 30

DefaultRetryAfter == 60

MinAddressLen == 5

DefaultTTL == 3600

Sec(n) == n * 10

CACHE_TTL ==
    [config |-> 3600, property_data |-> 7200, user_data |-> 1800,
     api_usage |-> 300, market_data |-> 14400]

Min(a, b) == IF a < b THEN a ELSE b

----------------------------------------------------------------------------
(* Inputs *)

Users == {"u1", "u2"}

None == "None"

\* the address argument None
NoAddress == <<None>>

Absent == "absent"

\* addresses as typed by the caller: character sequences, or None
Addresses ==
    { NoAddress,
      <<"1", "2">>,
      <<" ", "1", "2", " ", " ", " ">>,
      <<"1", " ", "E", "l", "m">>,
      <<" ", "1", " ", "E", "l", "m">> }

\* get_comparable_sales has the shape of the other two and is left out of the inputs
Methods == {"get_property_details", "get_rent_estimate"}

\* response.json(): a dict, a list, an empty object, or a body that is not JSON
Payloads == {"dict", "list", "empty"}

\* the return value None where a payload is expected
NoData == [raw |-> None, extra |-> FALSE]

NotJson == "not_json"

StatusCodes == {200, 204, 400, 401, 404, 429, 500, 501}

\* the Retry-After header of a 429 response: <<>> when absent, else <<seconds>>
RetryAfterValues == {<<>>, <<2>>, <<61>>}

\* the time that passes between two logical requests (ticks): the window drains
Deltas == {Sec(WindowSeconds) + 1}

\* random.uniform(0.1, 0.3), in tenths: the two ends of the range, and its middle
Jitters == {1, 3}

MidJitters == {2}

----------------------------------------------------------------------------
(* EnhancedAPIUsageManager.check_rate_limit *)

\* key = f"{user_id}_{endpoint}": one key per pair, as no endpoint holds a "_"
RateKey(user_id, endpoint) == <<user_id, endpoint>>

\* the endpoint that each of the three callers hands to _make_request_with_retry
EndpointOf ==
    [get_property_details |-> "properties", get_rent_estimate |-> "rent-estimate",
     get_comparable_sales |-> "comparable-sales"]

Endpoint(method) == EndpointOf[method]

Endpoints == {Endpoint(m) : m \in Methods}

RateKeys == {RateKey(u, e) : u \in Users, e \in Endpoints}

\* a variant of the pruning that also drops the timestamp at the start of the window
RECURSIVE PruneInclusive(_, _)
PruneInclusive(q, window_start) ==
    IF q # <<>> /\ Head(q) <= window_start
    THEN PruneInclusive(Tail(q), window_start)
    ELSE q

RECURSIVE Prune(_, _)
Prune(q, window_start) ==
    IF q # <<>> /\ Head(q) < window_start
    THEN Prune(Tail(q), window_start)
    ELSE q

UnderLimitOffByOne(q, limit) == Len(q) <= limit

UnderLimit(q, limit) == Len(q) < limit

\* a variant that records the call in the window even when it denies it
CheckRateLimitCountsDenied(q, t, limit) ==
    LET pruned == Prune(q, t - Sec(WindowSeconds)) IN
    <<UnderLimit(pruned, limit), Append(pruned, t)>>

\* the whole call, run without interruption: <<returned value, the deque afterwards>>
CheckRateLimit(q, t, limit) ==
    LET pruned == Prune(q, t - Sec(WindowSeconds)) IN
    IF UnderLimit(pruned, limit)
    THEN <<TRUE, Append(pruned, t)>>
    ELSE <<FALSE, pruned>>

----------------------------------------------------------------------------
(* MemoryCache *)

TTL(category) ==
    IF category \in DOMAIN CACHE_TTL THEN CACHE_TTL[category] ELSE DefaultTTL

Categories == DOMAIN CACHE_TTL

\* a variant of the expiry test that looks at the default TTL whatever the category
ExpiredDefaultTTL(key, category) == now - timestamps[key] > Sec(DefaultTTL)

Expired(key, category) == now - timestamps[key] > Sec(TTL(category))

\* what MemoryCache.get returns
CacheGetValue(key, category) ==
    IF key \notin DOMAIN cache THEN NoData
    ELSE IF Expired(key, category) THEN NoData
    ELSE cache[key]

Remove(f, key) == [k \in DOMAIN f \ {key} |-> f[k]]

Put(f, key, v) == [k \in DOMAIN f \cup {key} |-> IF k = key THEN v ELSE f[k]]

\* "pattern in k"
Contains(pattern, k) ==
    \E i \in 1..(Len(k) - Len(pattern) + 1) :
        SubSeq(k, i, i + Len(pattern) - 1) = pattern

\* k.startswith(prefix)
StartsWith(k, prefix) ==
    Len(k) >= Len(prefix) /\ SubSeq(k, 1, Len(prefix)) = prefix

Restrict(f, keys) == [k \in keys |-> f[k]]

\* a variant that leaves a miss uncounted
CountGetHitsOnly(s, hit) ==
    [hits |-> s.hits + (IF hit THEN 1 ELSE 0),
     misses |-> s.misses,
     total_requests |-> s.total_requests + 1]

\* the counters of a category after one more MemoryCache.get
CountGet(s, hit) ==
    [hits |-> s.hits + (IF hit THEN 1 ELSE 0),
     misses |-> s.misses + (IF hit THEN 0 ELSE 1),
     total_requests |-> s.total_requests + 1]

\* the effect of MemoryCache.get on the cache's own state
MemoryCacheGet(key, category) ==
    LET hit == key \in DOMAIN cache /\ ~Expired(key, category) IN
    /\ stats' = [stats EXCEPT ![category] = CountGet(@, hit)]
    /\ IF key \in DOMAIN cache /\ Expired(key, category)
       THEN /\ cache' = Remove(cache, key)
            /\ timestamps' = Remove(timestamps, key)
            /\ writer' = Remove(writer, key)
            /\ set_category' = Remove(set_category, key)
       ELSE UNCHANGED <<cache, timestamps, writer, set_category>>

\* MemoryCache.set: the category argument is not stored
MemoryCacheSet(key, value, category, user_id) ==
    /\ cache' = Put(cache, key, value)
    /\ timestamps' = Put(timestamps, key, now)
    /\ writer' = Put(writer, key, user_id)
    /\ set_category' = Put(set_category, key, category)

----------------------------------------------------------------------------
(* EnhancedRentCastManager: validation and cache keys *)

RECURSIVE LStrip(_)
LStrip(s) == IF s # <<>> /\ Head(s) = " " THEN LStrip(Tail(s)) ELSE s

RECURSIVE RStrip(_)
RStrip(s) ==
    IF s # <<>> /\ s[Len(s)] = " " THEN RStrip(SubSeq(s, 1, Len(s) - 1)) ELSE s

Strip(s) == RStrip(LStrip(s))

ValidAddress(address) ==
    /\ address # NoAddress
    /\ address # <<>>
    /\ Len(Strip(address)) >= MinAddressLen

\* hashlib.md5(...).hexdigest(): a function of the hashed text alone, taken to be
\* free of collisions
md5(text) == <<"md5", text>>

CacheKey(method, address) ==
    CASE method = "get_property_details" ->
            <<"property_details", md5(Strip(address))>>
      [] method = "get_rent_estimate" ->
            <<"rent_estimate",
              md5(Strip(address) \o <<"_", None, "_", None, "_", None>>)>>
      [] method = "get_comparable_sales" ->
            <<"comparable_sales", md5(Strip(address) \o <<"_", "0.5">>)>>

\* bool(value) of a cached or fetched payload
Truthy(v) == v.raw \notin {None, "empty"}

\* a dict whose 'rent' is a text: the arithmetic of the derived fields raises on it
DictTextRent == "dict_text_rent"

IsDict(body) == body \in {"dict", DictTextRent}

\* the helper raises inside its try block: _enrich_property_data on the item assignment
\* to a list, _add_investment_metrics on the division of a text by the price
\* (_calculate_market_score catches the same error itself and returns 50)
EnrichRaises(method, body) ==
    \/ method = "get_property_details" /\ body = "list"
    \/ method = "get_rent_estimate" /\ body = DictTextRent

\* a variant whose helpers let the exception through, so that the request has no data
EnrichRaisesThrough(method, body) ==
    IF EnrichRaises(method, body)
    THEN [raw |-> None, extra |-> FALSE]
    ELSE [raw |-> body, extra |-> (method # "get_comparable_sales" /\ IsDict(body))]

\* _enrich_property_data / _add_investment_metrics: a dict gets the derived fields;
\* when the helper raises, its except clause returns the data as is
Enrich(method, body) ==
    [raw |-> body,
     extra |-> /\ method # "get_comparable_sales"
               /\ IsDict(body)
               /\ ~EnrichRaises(method, body)]

----------------------------------------------------------------------------
(* EnhancedAPIUsageManager.track_api_call *)

\* cache_key = f"usage_{user_id}"
UsagePattern(user_id) == <<"usage_", user_id>>

\* a map of the cache after memory_cache.invalidate(pattern)
Invalidated(f, pattern) == Restrict(f, {k \in DOMAIN f : ~Contains(pattern, k)})

\* a map of the cache after track_api_call: the invalidation follows the insert and is
\* skipped when the insert raises
TrackInvalidated(f, user_id) ==
    IF db_up THEN Invalidated(f, UsagePattern(user_id)) ELSE f

\* a variant in which an exception of the insert leaves track_api_call
TrackRaisesWhenDown == ~db_up

\* whether track_api_call raises to its caller: its body is one try block whose
\* "except Exception" logs the error
TrackRaises == FALSE

UsageRecord(user_id, endpoint, success, response_time, error_message) ==
    [user_id |-> user_id, endpoint |-> endpoint, success |-> success,
     response_time |-> response_time, error_message |-> error_message]

\* the rows after the calls whose records are recs, in order; dbOk[i] says whether
\* the i-th insert went through (a failing insert is logged and swallowed)
RECURSIVE Tracked(_, _, _)
Tracked(rows, recs, dbOk) ==
    IF recs = <<>> THEN rows
    ELSE Tracked(IF Head(dbOk) THEN Append(rows, Head(recs)) ELSE rows,
                 Tail(recs), Tail(dbOk))

----------------------------------------------------------------------------
(* EnhancedRentCastManager._make_request_with_retry and its three callers *)

RECURSIVE Pow2(_)
Pow2(n) == IF n = 0 THEN 1 ELSE 2 * Pow2(n - 1)

\* _calculate_backoff_delay, in ticks; jitter is random.uniform(0.1, 0.3) in tenths
BackoffDelay(n, base, jitter) ==
    LET d == Min(base * Pow2(n), max_delay) IN Sec(d) + jitter * d

RetryAfter(header) == IF header = <<>> THEN DefaultRetryAfter ELSE header[1]

RetryableStatus(code) == code \in {500, 502, 503, 504}

ErrRateLimit == "Rate limit exceeded. Please try again later."

ErrInvalid == "Invalid address provided"

StatusError(code) ==
    CASE code = 429 -> "API rate limit exceeded"
      [] RetryableStatus(code) -> "Server error"
      [] code = 401 -> "Invalid API key"
      [] code = 404 -> "Property not found"
      [] OTHER -> "API error"

Pending == [data |-> NoData, error |-> None, via |-> "pending"]

key == CacheKey(req.method, req.address)

rkey == RateKey(req.user_id, Endpoint(req.method))

\* the logical request returns to the caller of get_property_details & co.
Return(data, error, via) ==
    /\ ret' = [data |-> data, error |-> error, via |-> via]
    /\ pc' = "idle"

\* "return None, 'Invalid address provided'": nothing has been touched
Reject ==
    /\ Return(NoData, ErrInvalid, "validation")
    /\ UNCHANGED <<cache, timestamps, stats, writer, set_category, rate_limiter, admitted>>

\* a variant that consults the rate limiter before it returns the cached value
CacheHitRateChecked(method, user_id, cached_data) ==
    /\ Return(cached_data, None, "cache")
    /\ rate_limiter' =
          [rate_limiter EXCEPT ![RateKey(user_id, Endpoint(method))] =
              CheckRateLimit(@, now, Quota)[2]]
    /\ UNCHANGED admitted

\* "if cached_data: return cached_data, None"
CacheHit(method, user_id, cached_data) ==
    /\ Return(cached_data, None, "cache")
    /\ UNCHANGED <<rate_limiter, admitted>>

\* get_property_details / get_rent_estimate / get_comparable_sales up to the call
\* of _make_request_with_retry: validation, cache lookup
Call(method, user_id, address) ==
    /\ pc = "idle"
    /\ nreq < MaxRequests
    /\ nreq' = nreq + 1
    /\ req' = [method |-> method, user_id |-> user_id, address |-> address]
    /\ netCalls' = 0 /\ rlChecks' = 0 /\ tracked' = 0 /\ sleeps' = 0
    /\ responses' = <<>>
    /\ attempt' = 0 /\ delay' = 0
    /\ at_call' = [cache |-> cache, timestamps |-> timestamps,
                    expired |-> LET k == CacheKey(method, address) IN
                                /\ ValidAddress(address)
                                /\ k \in DOMAIN cache
                                /\ Expired(k, "property_data")]
    /\ UNCHANGED <<now, ledger, start_time, nnet, threadVars, searchVars, userCacheVars,
                   ledgerVars, sharedVars, envVars, pagesVars>>
    /\ IF ~ValidAddress(address)
       THEN Reject
       ELSE LET k == CacheKey(method, address)
                cached_data == CacheGetValue(k, "property_data") IN
            /\ MemoryCacheGet(k, "property_data")
            /\ IF Truthy(cached_data)
               THEN CacheHit(method, user_id, cached_data)
               ELSE /\ pc' = "loop"
                    /\ ret' = Pending
                    /\ UNCHANGED <<rate_limiter, admitted>>

\* top of the loop body: start_time, then the rate check
LoopTop ==
    /\ pc = "loop"
    /\ start_time' = now
    /\ rlChecks' = rlChecks + 1
    /\ LET r == CheckRateLimit(rate_limiter[rkey], now, Quota) IN
       /\ rate_limiter' = [rate_limiter EXCEPT ![rkey] = r[2]]
       /\ IF r[1]
          THEN /\ admitted' = [admitted EXCEPT ![rkey] = Append(@, now)]
               /\ pc' = "net"
               /\ UNCHANGED ret
          ELSE /\ UNCHANGED admitted
               /\ Return(NoData, ErrRateLimit, "rate_limit")
    /\ UNCHANGED <<now, cache, timestamps, stats, ledger, req, attempt, delay, nreq,
                   nnet, netCalls, tracked, sleeps, responses, writer, set_category,
                   threadVars, searchVars, userCacheVars, sessionVars>>

\* self.usage_manager.track_api_call(user_id, endpoint, success, response_time, error)
Track(success, response_time, error) ==
    Tracked(ledger,
            <<UsageRecord(req.user_id, Endpoint(req.method), success,
                          response_time, error)>>, <<db_up>>)

\* the invalidation at the end of track_api_call
TrackInvalidate ==
    /\ cache' = TrackInvalidated(cache, req.user_id)
    /\ timestamps' = TrackInvalidated(timestamps, req.user_id)
    /\ writer' = TrackInvalidated(writer, req.user_id)
    /\ set_category' = TrackInvalidated(set_category, req.user_id)

\* a variant that returns the fetched value without storing it
TrackInvalidateThenSkipSet(k, value, category) == TrackInvalidate

\* the invalidation at the end of track_api_call, then memory_cache.set in the caller
TrackInvalidateThenSet(k, value, category) ==
    /\ cache' = Put(TrackInvalidated(cache, req.user_id), k, value)
    /\ timestamps' = Put(TrackInvalidated(timestamps, req.user_id), k, now)
    /\ writer' = Put(TrackInvalidated(writer, req.user_id), k, req.user_id)
    /\ set_category' = Put(TrackInvalidated(set_category, req.user_id), k, category)

\* the return of a request whose usage has just been tracked
ReturnTracked(data, error, via) ==
    IF TrackRaises
    THEN Return(NoData, "track_api_call raised", "exception")
    ELSE Return(data, error, via)

\* the end of _make_request_with_retry after a break or an exhausted loop
Fail(error) ==
    /\ ledger' = Track(FALSE, now' - start_time, error)
    /\ tracked' = tracked + 1
    /\ TrackInvalidate
    /\ ReturnTracked(NoData, error, "failure")
    /\ UNCHANGED <<stats, delay>>

\* time.sleep(d); continue
Retry(d) ==
    /\ delay' = d
    /\ pc' = "sleep"
    /\ UNCHANGED <<cache, timestamps, stats, writer, set_category, ledger, tracked, ret>>

RetryOrFail(d, error) ==
    IF attempt < max_retries THEN Retry(d) ELSE Fail(error)

\* session.get returns a response with this status code (exc = "none") and this
\* Retry-After header, or raises exc
Attempt(code, exc, header) ==
    /\ pc = "net"
    /\ req.method \in DOMAIN EndpointOf
    /\ nnet < MaxNetCalls
    /\ nnet' = nnet + 1
    /\ netCalls' = netCalls + 1
    /\ responses' = Append(responses, [code |-> code, exc |-> exc, header |-> header])
    /\ UNCHANGED <<rate_limiter, req, attempt, start_time, nreq, rlChecks,
                   sleeps, admitted, threadVars, searchVars, userCacheVars, sessionVars>>

\* status 200 with a JSON body: tracked, then handed to the caller, which enriches and
\* caches a non-empty result
Respond200(body) ==
    /\ Attempt(200, "none", <<>>)
    /\ UNCHANGED <<now, stats, delay>>
    /\ ledger' = Track(TRUE, now - start_time, None)
    /\ tracked' = tracked + 1
    /\ IF body # "empty"
       THEN /\ TrackInvalidateThenSet(key, Enrich(req.method, body), "property_data")
            /\ ReturnTracked(Enrich(req.method, body), None, "success")
       ELSE /\ TrackInvalidate
            /\ ReturnTracked(NoData, None, "empty")

\* status 200 with a body that is not JSON: tracked as a success, then response.json()
\* raises into "except Exception", and the request is tracked again as a failure
Respond200NotJson ==
    /\ Attempt(200, "none", <<>>)
    /\ UNCHANGED <<now, stats, delay>>
    /\ TrackInvalidate
    /\ ledger' = Tracked(ledger,
           <<UsageRecord(req.user_id, Endpoint(req.method), TRUE,
                         now - start_time, None),
             UsageRecord(req.user_id, Endpoint(req.method), FALSE,
                         now - start_time, "Unexpected error")>>,
           <<db_up, db_up>>)
    /\ tracked' = tracked + 2
    /\ ReturnTracked(NoData, "Unexpected error", "failure")

Respond429(header) ==
    /\ Attempt(429, "none", header)
    /\ UNCHANGED now
    /\ RetryOrFail(Min(Sec(RetryAfter(header)), Sec(max_delay)), StatusError(429))

\* 500, 502, 503, 504
RespondServerError(code, jitter) ==
    /\ Attempt(code, "none", <<>>)
    /\ RetryableStatus(code)
    /\ UNCHANGED now
    /\ RetryOrFail(BackoffDelay(attempt, base_delay, jitter), StatusError(code))

\* a variant of the terminal branch that treats the status like a server error
RespondTerminalRetried(code) ==
    /\ Attempt(code, "none", <<>>)
    /\ code \notin {200, 429}
    /\ ~RetryableStatus(code)
    /\ UNCHANGED now
    /\ RetryOrFail(BackoffDelay(attempt, base_delay, 2), StatusError(code))

\* 401, 404 and every other status
RespondTerminal(code) ==
    /\ Attempt(code, "none", <<>>)
    /\ code \notin {200, 429}
    /\ ~RetryableStatus(code)
    /\ UNCHANGED now
    /\ Fail(StatusError(code))

\* requests.exceptions.Timeout, raised once the timeout of 30 s has passed
RaiseTimeout(jitter) ==
    /\ Attempt(0, "Timeout", <<>>)
    /\ now + Sec(RequestTimeout) <= SleepMaxTime
    /\ now' = now + Sec(RequestTimeout)
    /\ RetryOrFail(BackoffDelay(attempt, base_delay, jitter), "Request timeout")

RaiseConnectionError(jitter) ==
    /\ Attempt(0, "ConnectionError", <<>>)
    /\ UNCHANGED now
    /\ RetryOrFail(BackoffDelay(attempt, ConnectionBaseDelay, jitter), "Connection error")

\* any other exception of session.get
RaiseException ==
    /\ Attempt(0, "Exception", <<>>)
    /\ UNCHANGED now
    /\ Fail("Unexpected error")

\* time.sleep(delay); continue, while the clock of the model has not stopped
SleepUntil(limit) ==
    /\ pc = "sleep"
    /\ req.method \in DOMAIN EndpointOf
    /\ now + delay <= limit
    /\ now' = now + delay
    /\ attempt' = attempt + 1
    /\ sleeps' = sleeps + 1
    /\ pc' = "loop"
    /\ UNCHANGED <<rate_limiter, cache, timestamps, stats, ledger, req, start_time,
                   delay, ret, nreq, nnet, netCalls, rlChecks, tracked, responses,
                   admitted, writer, set_category, threadVars, searchVars, userCacheVars,
                   sessionVars>>

Sleep == SleepUntil(SleepMaxTime)

\* time passes between two logical requests
Tick(d) ==
    /\ pc = "idle"
    /\ now + d <= MaxTime
    /\ now' = now + d
    /\ UNCHANGED <<rate_limiter, clientVars, admitted, threadVars, searchVars, userCacheVars,
                   sessionVars>>

----------------------------------------------------------------------------
(* The client, one logical request after another *)

Threads == {"t1", "t2"}

\* a thread of 551_Homepage outside every request
ThreadIdle ==
    [pc |-> "idle",
     req |-> [method |-> "get_property_details", user_id |-> "u1", address |-> NoAddress],
     attempt |-> 0, start_time |-> 0, wake |-> 0, data |-> NoData, error |-> None,
     ret |-> [data |-> NoData, error |-> None, via |-> "none", others_blocked |-> FALSE,
              at |-> 0]]

\* browser sessions of 1_Homepage, each running the script in a thread of its own
Sessions == {"s1", "s2"}

\* the users of App, by email
Emails == {"a@x", "b@x"}

\* no row of the table usage has the email
NoRow == -1

\* a thread outside MemoryCache, after n calls of its methods
NoCall(n) ==
    [pc |-> "idle", method |-> "none", key |-> <<>>, category |-> "none", value |-> "none",
     todo |-> {}, cur |-> <<>>, n |-> n, result |-> "none", raised |-> FALSE]

\* a session of App outside fetch_property_details has no locals
NoLocals == [email |-> "a@x", usage |-> 0, current |-> 0]

Init ==
    /\ now = 0
    /\ rate_limiter = [k \in RateKeys |-> <<>>]
    /\ cache = <<>>
    /\ timestamps = <<>>
    /\ writer = <<>>
    /\ set_category = <<>>
    /\ stats = [c \in Categories |-> [hits |-> 0, misses |-> 0, total_requests |-> 0]]
    /\ ledger = <<>>
    /\ pc = "idle"
    /\ req = [method |-> "get_property_details", user_id |-> "u1", address |-> NoAddress]
    /\ attempt = 0
    /\ start_time = 0
    /\ delay = 0
    /\ ret = [data |-> NoData, error |-> None, via |-> "none"]
    /\ nreq = 0
    /\ nnet = 0
    /\ netCalls = 0 /\ rlChecks = 0 /\ tracked = 0 /\ sleeps = 0
    /\ responses = <<>>
    /\ admitted = [k \in RateKeys |-> <<>>]
    /\ tpc = [t \in Threads |-> "out"]
    /\ tkey = [t \in Threads |-> RateKey("u1", "properties")]
    /\ tws = [t \in Threads |-> 0]
    /\ api_usage = <<>>
    /\ st_cache = <<>>
    /\ memory_cache = <<>>
    /\ cache_stats = [hits |-> 0, misses |-> 0]
    /\ get_memo = <<>>
    /\ rate_check = [allowed |-> TRUE, remaining |-> 0, reset_time |-> 0, current_usage |-> 0]
    /\ spc = [s \in Sessions |-> "out"]
    /\ sreq = [s \in Sessions |-> [user_id |-> "u1", at |-> 0]]
    /\ srate = [s \in Sessions |->
                  [allowed |-> TRUE, remaining |-> 0, reset_time |-> 0, current_usage |-> 0]]
    /\ ledger_admitted = [u \in Users |-> <<>>]
    /\ db_failed = FALSE
    /\ th = [t \in Threads |-> ThreadIdle]
    /\ lock = "free"
    /\ val_by = <<>>
    /\ ts_by = <<>>
    /\ db_up = TRUE
    /\ at_call = [cache |-> <<>>, timestamps |-> <<>>, expired |-> FALSE]
    /\ usage = [e \in Emails |-> NoRow]
    /\ apc = [s \in Sessions |-> "out"]
    /\ aloc = [s \in Sessions |-> NoLocals]
    /\ fetched = [e \in Emails |-> 0]
    /\ sent = [e \in Emails |-> NoRow]
    /\ authenticated = FALSE
    /\ user_role = None
    /\ token = None
    /\ login_attempts = 0
    /\ idp_calls = 0
    /\ login_ret = [result |-> "none", outcome |-> "none", role |-> <<>>, before |-> 0]
    /\ mc = [t \in Threads |-> NoCall(0)]

Next ==
    \/ \E m \in Methods, u \in Users, a \in Addresses : Call(m, u, a)
    \/ LoopTop
    \/ \E b \in Payloads : Respond200(b)
    \/ Respond200NotJson
    \/ \E c \in StatusCodes, j \in MidJitters : RespondServerError(c, j)
    \/ \E c \in StatusCodes : RespondTerminal(c)
    \/ Sleep
    \/ \E d \in Deltas : Tick(d)

Spec == Init /\ [][Next]_vars

----------------------------------------------------------------------------
(* Properties of the client *)

Finished == pc = "idle" /\ ret.via \notin {"none", "pending"}

\* C3: cache isolation. A cache hit returns an entry to the subject whose request
\* stored it, never to another subject.
C3_CacheIsolation ==
    (pc = "idle" /\ ret.via = "cache") => writer[key] = req.user_id

\* C4: usage completeness. Every logical request that passed validation has called
\* track_api_call exactly once when it returns, whatever its outcome.
C4_ExactlyOneUsageRecord ==
    (Finished /\ ret.via # "validation") => tracked = 1

\* C5: a request denied by the rate limiter is recorded as usage: one record with
\* success = false and a rate-limited error is written before the quota error returns.
C5_DenialRecorded ==
    (pc = "idle" /\ ret.via = "rate_limit") =>
        /\ tracked = 1
        /\ ledger # <<>>
        /\ ledger[Len(ledger)].user_id = req.user_id
        /\ ledger[Len(ledger)].success = FALSE

\* C6: when the rate limiter denies a logical request, no network call has been made
\* for that logical request.
C6_DenialBeforeNetwork ==
    (pc = "idle" /\ ret.via = "rate_limit") => netCalls = 0

\* C7: the rate limiter is consulted exactly once per logical request that reaches
\* the rate check, however many attempts the request makes.
C7_OneRateCheckPerRequest ==
    /\ rlChecks <= 1
    /\ (Finished /\ ret.via \notin {"validation", "cache"}) => rlChecks = 1

\* C8: on a cache hit the request returns the cached value at once: the step makes no
\* network call, does not call check_rate_limit, and leaves the rate-limiter windows
\* and the ledger as they were.
C8_CacheHitTouchesNothing ==
    [][(nreq' # nreq /\ ret'.via = "cache") =>
          /\ pc' = "idle"
          /\ ret'.data = cache[CacheKey(req'.method, req'.address)]
          /\ rate_limiter' = rate_limiter
          /\ nnet' = nnet /\ netCalls' = 0 /\ rlChecks' = 0
          /\ ledger' = ledger]_vars

\* a hit served while the limiter holds timestamps of the key of the request
C8_Witness ==
    /\ pc = "idle" /\ ret.via = "cache"
    /\ rate_limiter[rkey] # <<>>
    /\ stats["property_data"].hits > 0

AllServerErrors ==
    /\ responses # <<>>
    /\ \A i \in 1..Len(responses) :
          responses[i].exc = "none" /\ responses[i].code \in 500..599

\* C10: retry termination. When every answer of the upstream is a 5xx status, the
\* request ends after exactly max_retries + 1 network attempts with a server error.
C10_ServerErrorsRetried ==
    (Finished /\ AllServerErrors) =>
        /\ netCalls = max_retries + 1
        /\ ret.error = "Server error"

----------------------------------------------------------------------------
(* The rate limiter alone: check_rate_limit called one call after another *)

\* the clock of the limiter's specifications stops here (ticks)
LimiterMaxTime == 1000

\* steps of the clock that put a later call exactly on the edge of the window of an
\* earlier one (two steps of 30 s) and just past it
LimiterDeltas == {Sec(WindowSeconds) \div 2, Sec(WindowSeconds) \div 2 + 1}

LimiterUsers == {"u1", "u2"}

LimiterEndpoints == {"properties"}

\* a variant that keeps one window per endpoint, whoever the user
CheckRateLimitCallPerEndpoint(user_id, endpoint) ==
    LET k == RateKey(user_id, endpoint)
        r == CheckRateLimit(rate_limiter[k], now, Quota) IN
    /\ rate_limiter' = [x \in DOMAIN rate_limiter |->
                           IF x[2] = endpoint THEN r[2] ELSE rate_limiter[x]]
    /\ admitted' = [admitted EXCEPT ![k] = IF r[1] THEN Append(@, now) ELSE @]
    /\ req' = [method |-> "check_rate_limit", user_id |-> user_id, endpoint |-> endpoint,
               address |-> NoAddress, key |-> k, at |-> now]
    /\ ret' = [data |-> NoData, error |-> None,
               via |-> IF r[1] THEN "admitted" ELSE "denied"]
    /\ UNCHANGED <<now, cache, timestamps, stats, ledger, pc, attempt, start_time, delay,
                   nreq, nnet, netCalls, rlChecks, tracked, sleeps, responses, writer,
                   set_category, threadVars, searchVars, userCacheVars, sessionVars>>

\* usage_manager.check_rate_limit(user_id, endpoint), from the call to the return
CheckRateLimitCall(user_id, endpoint) ==
    LET k == RateKey(user_id, endpoint)
        r == CheckRateLimit(rate_limiter[k], now, Quota) IN
    /\ rate_limiter' = [rate_limiter EXCEPT ![k] = r[2]]
    /\ admitted' = [admitted EXCEPT ![k] = IF r[1] THEN Append(@, now) ELSE @]
    /\ req' = [method |-> "check_rate_limit", user_id |-> user_id, endpoint |-> endpoint,
               address |-> NoAddress, key |-> k, at |-> now]
    /\ ret' = [data |-> NoData, error |-> None,
               via |-> IF r[1] THEN "admitted" ELSE "denied"]
    /\ UNCHANGED <<now, cache, timestamps, stats, ledger, pc, attempt, start_time, delay,
                   nreq, nnet, netCalls, rlChecks, tracked, sleeps, responses, writer,
                   set_category, threadVars, searchVars, userCacheVars, sessionVars>>

LimiterTick(d) ==
    /\ now + d <= LimiterMaxTime
    /\ now' = now + d
    /\ UNCHANGED <<rate_limiter, clientVars, admitted, threadVars, searchVars, userCacheVars,
                   sessionVars>>

LimiterNext ==
    \/ \E u \in LimiterUsers, e \in LimiterEndpoints : CheckRateLimitCall(u, e)
    \/ \E d \in LimiterDeltas : LimiterTick(d)

SpecLimiter == Init /\ [][LimiterNext]_vars

\* the admitted calls of key k inside the interval [a, a + W]
AdmittedWithin(k, a) ==
    {i \in 1..Len(admitted[k]) :
        admitted[k][i] >= a /\ admitted[k][i] <= a + Sec(WindowSeconds)}

\* C1: rate-limit boundedness. Whatever calls were made one after another, no interval
\* of W = 60 s holds more than Quota admitted calls of one key. (An interval that holds
\* admitted calls holds no fewer when it is moved to start at the first of them, so the
\* intervals that start at an admitted call decide it.)
C1_WindowBounded ==
    \A k \in RateKeys : \A i \in 1..Len(admitted[k]) :
        Cardinality(AdmittedWithin(k, admitted[k][i])) <= Quota

\* a key whose window is full, and which has also been admitted again in a later window
C1_Witness ==
    \E k \in RateKeys :
        /\ Len(rate_limiter[k]) = Quota
        /\ Len(admitted[k]) > Quota

----------------------------------------------------------------------------
(* The rate limiter under threads: the statements of check_rate_limit interleave *)

\* "now = time.time(); window_start = now - 60; key = ..."
TBegin(t, user_id, endpoint) ==
    /\ tpc[t] = "out"
    /\ tkey' = [tkey EXCEPT ![t] = RateKey(user_id, endpoint)]
    /\ tws' = [tws EXCEPT ![t] = now - Sec(WindowSeconds)]
    /\ tpc' = [tpc EXCEPT ![t] = "while"]
    /\ UNCHANGED <<now, rate_limiter, clientVars, admitted, searchVars, userCacheVars, sessionVars>>

\* "while self.rate_limiter[key] and self.rate_limiter[key][0] < window_start"
TWhile(t) ==
    /\ tpc[t] = "while"
    /\ tpc' = [tpc EXCEPT ![t] =
          IF rate_limiter[tkey[t]] # <<>> /\ Head(rate_limiter[tkey[t]]) < tws[t]
          THEN "popleft" ELSE "len"]
    /\ UNCHANGED <<now, rate_limiter, clientVars, admitted, tkey, tws, searchVars, userCacheVars,
                   sessionVars>>

\* "self.rate_limiter[key].popleft()": IndexError when another thread emptied the deque
TPopleft(t) ==
    /\ tpc[t] = "popleft"
    /\ IF rate_limiter[tkey[t]] = <<>>
       THEN /\ tpc' = [tpc EXCEPT ![t] = "out"]
            /\ UNCHANGED rate_limiter
       ELSE /\ rate_limiter' = [rate_limiter EXCEPT ![tkey[t]] = Tail(@)]
            /\ tpc' = [tpc EXCEPT ![t] = "while"]
    /\ UNCHANGED <<now, clientVars, admitted, tkey, tws, searchVars, userCacheVars, sessionVars>>

\* "if len(self.rate_limiter[key]) >= limit_per_minute: return False"
TLen(t) ==
    /\ tpc[t] = "len"
    /\ tpc' = [tpc EXCEPT ![t] =
          IF UnderLimit(rate_limiter[tkey[t]], Quota) THEN "append" ELSE "out"]
    /\ UNCHANGED <<now, rate_limiter, clientVars, admitted, tkey, tws, searchVars, userCacheVars,
                   sessionVars>>

\* "self.rate_limiter[key].append(now); return True"
TAppend(t) ==
    /\ tpc[t] = "append"
    /\ rate_limiter' =
          [rate_limiter EXCEPT ![tkey[t]] = Append(@, tws[t] + Sec(WindowSeconds))]
    /\ admitted' =
          [admitted EXCEPT ![tkey[t]] = Append(@, tws[t] + Sec(WindowSeconds))]
    /\ tpc' = [tpc EXCEPT ![t] = "out"]
    /\ UNCHANGED <<now, clientVars, tkey, tws, searchVars, userCacheVars, sessionVars>>

\* the threads call with one and the same key
ThreadUsers == {"u1"}

\* the clock of the threads' specification stops here (ticks)
ThreadMaxTime == 700

ThreadsTick(d) ==
    /\ now + d <= ThreadMaxTime
    /\ now' = now + d
    /\ UNCHANGED <<rate_limiter, clientVars, admitted, threadVars, searchVars, userCacheVars,
                   sessionVars>>

ThreadsNext ==
    \/ \E t \in Threads, u \in ThreadUsers, e \in LimiterEndpoints : TBegin(t, u, e)
    \/ \E t \in Threads : TWhile(t)
    \/ \E t \in Threads : TPopleft(t)
    \/ \E t \in Threads : TLen(t)
    \/ \E t \in Threads : TAppend(t)
    \/ \E d \in LimiterDeltas : ThreadsTick(d)

SpecThreads == Init /\ [][ThreadsNext]_vars

\* C2: concurrent admission checks of one key are never both admitted past the quota:
\* the number of timestamps in the window of a key never exceeds the limit.
C2_NeverPastQuota ==
    \A k \in RateKeys : Len(rate_limiter[k]) <= Quota

----------------------------------------------------------------------------
(* src/1_*_Homepage.py: RentCastManager.search_properties_enhanced over the   *)
(* ledger-backed limiter of APIUsageManager                                    *)

\* "property_search": {"limit": 100, ...}, scaled down
SearchQuota == 1

\* calls of search_properties_enhanced per behaviour
MaxSearchRequests == 2

\* session.get calls of search_properties_enhanced per behaviour
MaxSearchNetCalls == 3

\* the clock stops advancing here (ticks)
SearchMaxTime == 80000

SearchWindowSeconds == 3600

SearchCacheTTL == 7200

search_max_retries == 3

search_base_delay == 1

search_timeout == 30

FailOpenRemaining == 999

\* the entry of self.rate_limits that search_properties_enhanced consults
rate_limits ==
    [property_search |-> [limit |-> SearchQuota, window |-> SearchWindowSeconds]]

\* the state of 551_Homepage, which 1_Homepage does not touch
homepage551Vars ==
    <<rate_limiter, admitted, cache, timestamps, stats, ledger, writer, set_category,
      tpc, tkey, tws>>

\* search_params: the required fields as character sequences; NoAddress is a field
\* that is missing or None
SearchAddresses == {NoAddress, <<"1", "2">>, <<"1", " ", "E", "l", "m">>}

SearchCities == {<<>>, <<"A">>}

SearchStates == {<<"T", "X">>}

SearchParams ==
    [address : SearchAddresses, city : {<<"A">>}, state : SearchStates]
        \cup [address : {<<"1", " ", "E", "l", "m">>}, city : SearchCities,
              state : SearchStates]

SearchStatusCodes == {200, 401, 404, 429, 500}

\* response.json(): a list of properties or an empty body
SearchPayloads == {"list", "empty"}

\* random.uniform(0, 1), in ticks
SearchJitters == {5}

\* the time that passes between two calls (ticks): the window drains
SearchDeltas == {Sec(SearchWindowSeconds) + 1}

Max(a, b) == IF a > b THEN a ELSE b

\* "not params.get(field)": the field is missing, None or empty
Falsy(v) == v = NoAddress \/ v = <<>>

\* _validate_search_params: the first required field that is missing, or None
MissingField(params) ==
    IF Falsy(params.address) THEN "address"
    ELSE IF Falsy(params.city) THEN "city"
    ELSE IF Falsy(params.state) THEN "state"
    ELSE None

\* {"error": f"Missing required field: {field}"}
MissingFieldError(field) ==
    CASE field = "address" -> "Missing required field: address"
      [] field = "city" -> "Missing required field: city"
      [] OTHER -> "Missing required field: state"

\* the rows that the query of check_rate_limit selects
RecentUsage(rows, user_id, query_type, window_start) ==
    { i \in DOMAIN rows : /\ rows[i].user_id = user_id
                          /\ rows[i].query_type = query_type
                          /\ rows[i].created_at >= window_start }

\* a variant that denies the call when the query raises
LedgerCheckRateLimitFailClosed(rows, user_id, query_type, t, dbOk) ==
    LET window == Sec(rate_limits[query_type].window)
        current_count == Cardinality(RecentUsage(rows, user_id, query_type, t - window))
        limit == rate_limits[query_type].limit IN
    [allowed |-> dbOk /\ current_count < limit,
     remaining |-> IF dbOk THEN Max(0, limit - current_count) ELSE 0,
     reset_time |-> t + window,
     current_usage |-> IF dbOk THEN current_count ELSE -1]

\* APIUsageManager.check_rate_limit; dbOk is FALSE when the query raises. The keys
\* reset_time and current_usage are missing from the fail-open answer (-1 here).
LedgerCheckRateLimit(rows, user_id, query_type, t, dbOk) ==
    IF ~dbOk
    THEN [allowed |-> TRUE, remaining |-> FailOpenRemaining,
          reset_time |-> -1, current_usage |-> -1]
    ELSE LET window == Sec(rate_limits[query_type].window)
             current_count ==
                 Cardinality(RecentUsage(rows, user_id, query_type, t - window))
             limit == rate_limits[query_type].limit IN
         [allowed |-> current_count < limit,
          remaining |-> Max(0, limit - current_count),
          reset_time |-> t + window,
          current_usage |-> current_count]

\* log_data of log_enhanced_usage; status_code 0 stands for None
LogRow(user_id, query, query_type, success, error_type, status_code, t) ==
    [user_id |-> user_id, query |-> query, query_type |-> query_type,
     created_at |-> t, success |-> success, error_type |-> error_type,
     status_code |-> status_code]

\* APIUsageManager.log_enhanced_usage: the insert, whose exception is swallowed (dbOk
\* FALSE). The invalidation that follows acts on CacheManager, which
\* search_properties_enhanced does not read.
LogEnhancedUsage(rows, row, dbOk) == IF dbOk THEN Append(rows, row) ELSE rows

\* _process_property_data: a dict or a list becomes a list of enriched properties, an
\* empty body the empty result
ProcessPropertyData(body) ==
    [raw |-> body, extra |-> (body # "empty")]

\* f"API error: {response.status_code}"
SearchStatusError(code) ==
    CASE code = 404 -> "API error: 404"
      [] code = 500 -> "API error: 500"
      [] OTHER -> "API error"

\* @st.cache_data(ttl=7200): the key is made of the arguments
StKey(search_params, user_id) == <<search_params, user_id>>

StCached(k) ==
    /\ k \in DOMAIN st_cache
    /\ now - st_cache[k].at < Sec(SearchCacheTTL)

skey == StKey(req.params, req.user_id)

\* search_properties_enhanced returns; st.cache_data stores what it returned
SearchReturn(k, data, error, via, t) ==
    /\ ret' = [data |-> data, error |-> error, via |-> via]
    /\ pc' = "idle"
    /\ st_cache' = Put(st_cache, k, [value |-> ret', at |-> t])

\* search_properties_enhanced up to the first session.get: the lookup of
\* st.cache_data, the rate check, start_time, the validation
SearchCall(search_params, user_id, dbOk) ==
    /\ pc = "idle"
    /\ nreq < MaxSearchRequests
    /\ nreq' = nreq + 1
    /\ req' = [method |-> "search_properties_enhanced", user_id |-> user_id,
               address |-> search_params.address, params |-> search_params]
    /\ netCalls' = 0 /\ tracked' = 0 /\ sleeps' = 0
    /\ responses' = <<>>
    /\ attempt' = 0 /\ delay' = 0
    /\ UNCHANGED <<now, nnet, api_usage, homepage551Vars, userCacheVars, sessionVars>>
    /\ LET k == StKey(search_params, user_id) IN
       IF StCached(k)
       THEN /\ ret' = [st_cache[k].value EXCEPT !.via = "st_cache"]
            /\ pc' = "idle"
            /\ rlChecks' = 0
            /\ UNCHANGED <<start_time, st_cache, rate_check>>
       ELSE LET rc == LedgerCheckRateLimit(api_usage, user_id, "property_search",
                                           now, dbOk) IN
            /\ rlChecks' = 1
            /\ rate_check' = rc
            /\ IF ~rc.allowed
               THEN /\ SearchReturn(k, NoData, "Rate limit exceeded", "rate_limit", now)
                    /\ UNCHANGED start_time
               ELSE /\ start_time' = now
                    /\ IF MissingField(search_params) # None
                       THEN SearchReturn(k, NoData,
                                MissingFieldError(MissingField(search_params)),
                                "validation", now)
                       ELSE /\ pc' = "net"
                            /\ ret' = Pending
                            /\ UNCHANGED st_cache

\* self.session.get(url, params=validated_params, timeout=30) returns a response with
\* this status code (exc = "none") or raises exc
SearchAttempt(code, exc) ==
    /\ pc = "net"
    /\ req.method = "search_properties_enhanced"
    /\ nnet < MaxSearchNetCalls
    /\ nnet' = nnet + 1
    /\ netCalls' = netCalls + 1
    /\ responses' = Append(responses, [code |-> code, exc |-> exc, header |-> <<>>])
    /\ UNCHANGED <<req, start_time, nreq, rlChecks, rate_check, homepage551Vars, userCacheVars,
                   sessionVars>>

\* log_enhanced_usage(user_id, ..., "property_search", success, ...)
SearchLog(query, success, error_type, status_code, t, dbOk) ==
    /\ api_usage' = LogEnhancedUsage(api_usage,
           LogRow(req.user_id, query, "property_search", success, error_type,
                  status_code, t), dbOk)
    /\ tracked' = tracked + 1

\* _log_api_error(user_id, error_type, status_code), then return {"error": ...}
SearchFail(error_type, status_code, error, t, dbOk) ==
    /\ SearchLog("API_ERROR", FALSE, error_type, status_code, t, dbOk)
    /\ SearchReturn(skey, NoData, error, "failure", t)
    /\ UNCHANGED <<attempt, delay, sleeps>>

\* time.sleep(d); continue
SearchRetry(d) ==
    /\ delay' = d
    /\ pc' = "sleep"
    /\ UNCHANGED <<api_usage, tracked, ret, st_cache, attempt, sleeps>>

\* "if attempt < max_retries - 1"
SearchRetryOrFail(d, error_type, status_code, error, t, dbOk) ==
    IF attempt < search_max_retries - 1
    THEN SearchRetry(d)
    ELSE SearchFail(error_type, status_code, error, t, dbOk)

\* status 200 with a JSON body: processed, logged as a success, returned
SearchRespond200(body, dbOk) ==
    /\ SearchAttempt(200, "none")
    /\ UNCHANGED <<now, attempt, delay, sleeps>>
    /\ SearchLog("search_params", TRUE, None, 0, now, dbOk)
    /\ SearchReturn(skey, ProcessPropertyData(body), None, "success", now)

\* status 200 with a body that is not JSON: response.json() raises; the exception is a
\* RequestException for the requests releases that define JSONDecodeError, and a
\* ValueError caught by the outer handler for the older ones
SearchRespond200NotJson(error_type, dbOk) ==
    /\ SearchAttempt(200, "none")
    /\ error_type \in {"request_error", "unexpected_error"}
    /\ UNCHANGED now
    /\ SearchFail(error_type, 0,
                  IF error_type = "request_error"
                  THEN "Request failed" ELSE "Unexpected error", now, dbOk)

SearchRespond429(jitter, dbOk) ==
    /\ SearchAttempt(429, "none")
    /\ UNCHANGED now
    /\ SearchRetryOrFail(Sec(search_base_delay * Pow2(attempt)) + jitter,
                         "rate_limit_exceeded", 429, "Rate limit exceeded", now, dbOk)

SearchRespond401(dbOk) ==
    /\ SearchAttempt(401, "none")
    /\ UNCHANGED now
    /\ SearchFail("authentication_failed", 401, "API authentication failed", now, dbOk)

\* every other status: 5xx is retried, the rest ends the request
SearchRespondOther(code, dbOk) ==
    /\ SearchAttempt(code, "none")
    /\ code \notin {200, 429, 401}
    /\ UNCHANGED now
    /\ IF attempt < search_max_retries - 1 /\ code >= 500
       THEN SearchRetry(Sec(search_base_delay * Pow2(attempt)))
       ELSE SearchFail("http_error", code, SearchStatusError(code), now, dbOk)

\* requests.exceptions.Timeout, raised once the timeout of 30 s has passed
SearchRaiseTimeout(dbOk) ==
    /\ SearchAttempt(0, "Timeout")
    /\ now + Sec(search_timeout) <= SearchMaxTime
    /\ now' = now + Sec(search_timeout)
    /\ SearchRetryOrFail(Sec(search_base_delay * Pow2(attempt)), "timeout", 0,
                         "Request timeout", now', dbOk)

\* any other requests.exceptions.RequestException: no retry
SearchRaiseRequestException(dbOk) ==
    /\ SearchAttempt(0, "RequestException")
    /\ UNCHANGED now
    /\ SearchFail("request_error", 0, "Request failed", now, dbOk)

SearchSleep ==
    /\ pc = "sleep"
    /\ req.method = "search_properties_enhanced"
    /\ now + delay <= SearchMaxTime
    /\ now' = now + delay
    /\ attempt' = attempt + 1
    /\ sleeps' = sleeps + 1
    /\ pc' = "net"
    /\ UNCHANGED <<req, start_time, delay, ret, nreq, nnet, netCalls, rlChecks, tracked,
                   responses, searchVars, homepage551Vars, userCacheVars, sessionVars>>

\* time passes between two calls of search_properties_enhanced
SearchTick(d) ==
    /\ pc = "idle"
    /\ now + d <= SearchMaxTime
    /\ now' = now + d
    /\ UNCHANGED <<pc, req, attempt, start_time, delay, ret, nreq, nnet, netCalls, rlChecks,
                   tracked, sleeps, responses, searchVars, homepage551Vars, userCacheVars,
                   sessionVars>>

SearchNext ==
    \/ \E p \in SearchParams, u \in Users, dbOk \in BOOLEAN : SearchCall(p, u, dbOk)
    \/ \E b \in SearchPayloads, dbOk \in BOOLEAN : SearchRespond200(b, dbOk)
    \/ \E e \in {"request_error", "unexpected_error"}, dbOk \in BOOLEAN :
          SearchRespond200NotJson(e, dbOk)
    \/ \E j \in SearchJitters, dbOk \in BOOLEAN : SearchRespond429(j, dbOk)
    \/ \E dbOk \in BOOLEAN : SearchRespond401(dbOk)
    \/ \E c \in SearchStatusCodes, dbOk \in BOOLEAN : SearchRespondOther(c, dbOk)
    \/ \E dbOk \in BOOLEAN : SearchRaiseTimeout(dbOk)
    \/ \E dbOk \in BOOLEAN : SearchRaiseRequestException(dbOk)
    \/ SearchSleep
    \/ \E d \in SearchDeltas : SearchTick(d)

SpecSearch == Init /\ [][SearchNext]_vars

----------------------------------------------------------------------------
(* One logical request of either client, with every outcome of session.get *)

RetryCall(method, user_id, address) ==
    /\ nreq < MaxRetryRequests
    /\ Call(method, user_id, address)

RetrySearchCall(search_params, user_id, dbOk) ==
    /\ nreq < MaxRetryRequests
    /\ SearchCall(search_params, user_id, dbOk)

RetryNext ==
    \/ \E m \in Methods, u \in Users, a \in Addresses : RetryCall(m, u, a)
    \/ LoopTop
    \/ \E b \in Payloads : Respond200(b)
    \/ Respond200NotJson
    \/ \E h \in RetryAfterValues : Respond429(h)
    \/ \E c \in StatusCodes, j \in Jitters : RespondServerError(c, j)
    \/ \E c \in StatusCodes : RespondTerminal(c)
    \/ \E j \in Jitters : RaiseTimeout(j)
    \/ \E j \in Jitters : RaiseConnectionError(j)
    \/ RaiseException
    \/ Sleep
    \/ \E p \in SearchParams, u \in Users, dbOk \in BOOLEAN : RetrySearchCall(p, u, dbOk)
    \/ \E b \in SearchPayloads, dbOk \in BOOLEAN : SearchRespond200(b, dbOk)
    \/ \E e \in {"request_error", "unexpected_error"}, dbOk \in BOOLEAN :
          SearchRespond200NotJson(e, dbOk)
    \/ \E j \in SearchJitters, dbOk \in BOOLEAN : SearchRespond429(j, dbOk)
    \/ \E dbOk \in BOOLEAN : SearchRespond401(dbOk)
    \/ \E c \in SearchStatusCodes, dbOk \in BOOLEAN : SearchRespondOther(c, dbOk)
    \/ \E dbOk \in BOOLEAN : SearchRaiseTimeout(dbOk)
    \/ \E dbOk \in BOOLEAN : SearchRaiseRequestException(dbOk)
    \/ SearchSleep

SpecRetry == Init /\ [][RetryNext]_vars

----------------------------------------------------------------------------
(* Properties of search_properties_enhanced *)

\* a required field is missing, or the address is shorter than the minimum length
BadSearchParams(r) == MissingField(r.params) # None \/ ~ValidAddress(r.address)

\* C9: validation comes first. A request with a missing or too-short required field
\* (e.g. address "12") is rejected by validation before any rate-limiter check and any
\* network call, and no usage record is written for it.
C9_ValidationFirst ==
    (nreq > 0 /\ BadSearchParams(req)) =>
        /\ pc = "idle"
        /\ ret.via \in {"validation", "st_cache"}
        /\ rlChecks = 0
        /\ netCalls = 0
        /\ tracked = 0

----------------------------------------------------------------------------
(* Properties of the retry loops *)

LastResponse == responses[Len(responses)]

AuthErrors == {"Invalid API key", "API authentication failed"}

\* C11: no retry on a 401. When session.get answers 401 the logical request ends at
\* once with the authentication error: no sleep and no further attempt follows the
\* 401, and a 401 on the first attempt makes exactly 1 network attempt.
C11_NoRetryOn401 ==
    \A i \in 1..Len(responses) :
        responses[i].code = 401 =>
            /\ i = Len(responses)
            /\ netCalls = i
            /\ sleeps = i - 1
            /\ pc = "idle"
            /\ ret.via = "failure"
            /\ ret.error \in AuthErrors

\* a 401 on the first attempt
C11_Witness ==
    /\ pc = "idle"
    /\ Len(responses) = 1
    /\ LastResponse.code = 401
    /\ netCalls = 1
    /\ sleeps = 0
    /\ ret.error \in AuthErrors

IsSearch == req.method = "search_properties_enhanced"

\* every attempt of the request raised an exception of this kind
AllRaised(kinds) ==
    /\ responses # <<>>
    /\ \A i \in 1..Len(responses) : responses[i].exc \in kinds

\* maxRetries of the client that serves the request
MaxRetriesOf(r) ==
    IF r.method = "search_properties_enhanced" THEN search_max_retries ELSE max_retries

\* C12: timeouts and connection errors are retried. When every attempt times out (or
\* every attempt raises a connection error, which search_properties_enhanced catches
\* as a RequestException) the finished request has made exactly maxRetries + 1
\* attempts with a sleep between consecutive attempts and returns the terminal
\* timeout (connection error) failure.
C12_TimeoutsRetried ==
    (pc = "idle" /\ (AllRaised({"Timeout"})
                        \/ AllRaised({"ConnectionError", "RequestException"}))) =>
        /\ netCalls = MaxRetriesOf(req) + 1
        /\ sleeps = MaxRetriesOf(req)
        /\ ret.via = "failure"

\* the last attempt was answered 404, or 2xx with nothing in the body
NotFoundResponse ==
    /\ responses # <<>>
    /\ LastResponse.exc = "none"
    /\ \/ LastResponse.code = 404
       \/ LastResponse.code = 204
       \/ LastResponse.code = 200 /\ ret.via = "empty"

\* a status outside 2xx, 401/403, 404, 429 and 5xx
UnclassifiedStatus(code) ==
    /\ code \notin 200..299
    /\ code \notin {401, 403, 404, 429}
    /\ code \notin 500..599

\* C13: a 404, a 2xx with an empty body and any unclassified status end the request
\* (no sleep and no attempt follows them); the 404 and the empty body are reported as
\* absence of data and not as a failure, an unclassified status as an error.
C13_NotFoundIsNotAnError ==
    (~IsSearch /\ pc = "idle" /\ responses # <<>> /\ LastResponse.exc = "none") =>
        /\ NotFoundResponse =>
              /\ ret.data = NoData
              /\ ret.error \in {None, "Property not found"}
              /\ ledger # <<>> => ledger[Len(ledger)].success
        /\ UnclassifiedStatus(LastResponse.code) =>
              /\ ret.via = "failure"
              /\ ret.error = "API error"

\* _calculate_backoff_delay(attempt) for every jitter of random.uniform(0.1, 0.3)
BackoffDelays(n) == {BackoffDelay(n, base_delay, j) : j \in 1..3}

\* C14: after a 429 with retries remaining the client sleeps at least Retry-After
\* seconds before the next attempt, also when Retry-After exceeds max_delay, and
\* sleeps the exponential backoff delay when the header is absent.
C14_RetryAfterHonoured ==
    (~IsSearch /\ pc = "sleep" /\ LastResponse.code = 429) =>
        IF LastResponse.header # <<>>
        THEN delay >= Sec(LastResponse.header[1])
        ELSE delay \in BackoffDelays(attempt)

\* C15: the response time in the usage record of a logical request runs from the
\* start of its first attempt to the terminal outcome, so it is at least as long as
\* the last wait between two of its attempts.
C15_ResponseTimeIncludesWaits ==
    (~IsSearch /\ pc = "idle" /\ tracked > 0 /\ sleeps > 0) =>
        ledger[Len(ledger)].response_time >= delay

\* the admitted calls of key k in the window of a call made at time t
InWindow(k, t) ==
    {i \in 1..Len(admitted[k]) : admitted[k][i] >= t - Sec(WindowSeconds)}

\* C20: exactness of admission. A call of check_rate_limit is denied only when Quota
\* admitted calls of its key already lie in the window, and an admitted call is one of
\* at most Quota in the window: from an empty window the first Quota calls are
\* admitted and the next one within the window is denied, and a new key is admitted.
C20_ExactAdmission ==
    (req.method = "check_rate_limit" /\ req.at = now) =>
        /\ ret.via = "denied" => Cardinality(InWindow(req.key, now)) >= Quota
        /\ ret.via = "admitted" => Cardinality(InWindow(req.key, now)) <= Quota

\* the call after Quota admitted calls in one window has just been denied
C20_Witness ==
    /\ req.method = "check_rate_limit"
    /\ req.at = now
    /\ ret.via = "denied"
    /\ Len(admitted[req.key]) = Quota
    /\ Cardinality(InWindow(req.key, now)) = Quota

----------------------------------------------------------------------------
(* MemoryCache (551_Homepage) and CacheManager (1_Homepage), called directly *)

\* cache operations per behaviour
MaxCacheOps == 3

\* the clock stops advancing here (ticks)
CacheMaxTime == 72050

UserCacheTTL == 300

GetMemoTTL == 300

\* user ids 1 and 10, as their digits
CacheUserIds == {<<"1">>, <<"1", "0">>}

\* f"user_properties_{user_id}"
UserPropertiesKey(user_id) == <<"user_properties_">> \o user_id

CacheKeys == {UserPropertiesKey(u) : u \in CacheUserIds}

CacheValues == {Enrich("get_property_details", b) : b \in {"dict", "list"}}

CacheCategories == {"user_data", "property_data"}

\* the time between two cache operations: the TTL of user_data, a second less, a
\* second more; four of them reach the TTL of property_data
CacheDeltas ==
    {Sec(CACHE_TTL.user_data) - Sec(1), Sec(CACHE_TTL.user_data),
     Sec(CACHE_TTL.user_data) + Sec(1)}

\* MemoryCache.invalidate(pattern): every key that contains the pattern goes; nothing
\* happens for an empty pattern
MemoryCacheInvalidate(pattern) ==
    LET keys_to_remove ==
            IF pattern = <<>> THEN {}
            ELSE {k \in DOMAIN cache : Contains(pattern, k)}
        kept == DOMAIN cache \ keys_to_remove IN
    /\ cache' = Restrict(cache, kept)
    /\ timestamps' = Restrict(timestamps, kept)
    /\ writer' = Restrict(writer, kept)
    /\ set_category' = Restrict(set_category, kept)

\* what a cache operation leaves alone
cacheFrame ==
    <<rate_limiter, admitted, ledger, pc, attempt, start_time, delay, nnet, netCalls,
      rlChecks, tracked, sleeps, responses, threadVars, searchVars, sessionVars>>

CacheOp(method, k, category) ==
    /\ pc = "idle"
    /\ nreq < MaxCacheOps
    /\ nreq' = nreq + 1
    /\ req' = [method |-> method, user_id |-> None, address |-> NoAddress,
               key |-> k, category |-> category, at |-> now]
    /\ UNCHANGED <<now, cacheFrame>>

CacheSet(k, value, category) ==
    /\ CacheOp("MemoryCache.set", k, category)
    /\ MemoryCacheSet(k, value, category, None)
    /\ ret' = [data |-> NoData, error |-> None, via |-> "set"]
    /\ UNCHANGED <<stats, userCacheVars, sessionVars>>

CacheGet(k, category) ==
    /\ CacheOp("MemoryCache.get", k, category)
    /\ MemoryCacheGet(k, category)
    /\ ret' = [data |-> CacheGetValue(k, category), error |-> None,
               via |-> IF k \in DOMAIN cache /\ ~Expired(k, category)
                       THEN "hit" ELSE "miss"]
    /\ UNCHANGED userCacheVars

CacheInvalidate(pattern) ==
    /\ CacheOp("MemoryCache.invalidate", pattern, None)
    /\ MemoryCacheInvalidate(pattern)
    /\ ret' = [data |-> NoData, error |-> None, via |-> "invalidate"]
    /\ UNCHANGED <<stats, userCacheVars, sessionVars>>

\* the cache_key arguments of CacheManager
UserCacheKeys == {<<"a">>}

\* f"user_{user_id}_{cache_key}"
full_key(user_id, cache_key) == <<"user_">> \o user_id \o <<"_">> \o cache_key

\* the entry that set_user_cache stores
UserCacheEntry(data, t, ttl) == [data |-> data, timestamp |-> t, ttl |-> ttl]

UserCacheOp(method, user_id, cache_key) ==
    /\ pc = "idle"
    /\ nreq < MaxCacheOps
    /\ nreq' = nreq + 1
    /\ req' = [method |-> method, user_id |-> user_id, address |-> NoAddress,
               key |-> cache_key, category |-> None, at |-> now]
    /\ UNCHANGED <<now, cacheFrame, cache, timestamps, stats, writer, set_category>>

\* CacheManager.set_user_cache(user_id, cache_key, data, ttl)
SetUserCache(user_id, cache_key, data, ttl) ==
    /\ UserCacheOp("set_user_cache", user_id, cache_key)
    /\ memory_cache' = Put(memory_cache, full_key(user_id, cache_key),
                           UserCacheEntry(data, now, ttl))
    /\ ret' = [data |-> NoData, error |-> None, via |-> "set"]
    /\ UNCHANGED <<cache_stats, get_memo>>

\* CacheManager.get_user_cache(user_id, cache_key) under @st.cache_data(ttl=300): a
\* call with the arguments of an earlier call less than 300 s ago gets what that call
\* returned; otherwise the body runs, which returns the stored entry whatever its
\* timestamp and ttl
GetUserCache(user_id, cache_key) ==
    LET mk == <<user_id, cache_key>>
        fk == full_key(user_id, cache_key) IN
    /\ UserCacheOp("get_user_cache", user_id, cache_key)
    /\ IF mk \in DOMAIN get_memo /\ now - get_memo[mk].at < Sec(GetMemoTTL)
       THEN /\ ret' = get_memo[mk].value
            /\ UNCHANGED <<memory_cache, cache_stats, get_memo>>
       ELSE /\ ret' = IF fk \in DOMAIN memory_cache
                      THEN [data |-> memory_cache[fk], error |-> None, via |-> "hit"]
                      ELSE [data |-> NoData, error |-> None, via |-> "miss"]
            /\ cache_stats' =
                  IF fk \in DOMAIN memory_cache
                  THEN [cache_stats EXCEPT !.hits = @ + 1]
                  ELSE [cache_stats EXCEPT !.misses = @ + 1]
            /\ get_memo' = Put(get_memo, mk, [value |-> ret', at |-> now])
            /\ UNCHANGED memory_cache

\* CacheManager.invalidate_user_cache(user_id, cache_key); cache_key <<>> is None
InvalidateUserCache(user_id, cache_key) ==
    /\ UserCacheOp("invalidate_user_cache", user_id, cache_key)
    /\ memory_cache' =
          IF cache_key # <<>>
          THEN Restrict(memory_cache,
                        DOMAIN memory_cache \ {full_key(user_id, cache_key)})
          ELSE Restrict(memory_cache,
                        {k \in DOMAIN memory_cache :
                            ~StartsWith(k, <<"user_">> \o user_id \o <<"_">>)})
    /\ ret' = [data |-> NoData, error |-> None, via |-> "invalidate"]
    /\ UNCHANGED <<cache_stats, get_memo>>

\* time passes between two cache operations
CacheTick(d) ==
    /\ now + d <= CacheMaxTime
    /\ now' = now + d
    /\ UNCHANGED <<cacheFrame, cache, timestamps, stats, writer, set_category, req, ret,
                   nreq, userCacheVars>>

CacheNext ==
    \/ \E k \in CacheKeys, v \in CacheValues, c \in CacheCategories : CacheSet(k, v, c)
    \/ \E k \in CacheKeys, c \in CacheCategories : CacheGet(k, c)
    \/ \E k \in CacheKeys \cup {<<>>} : CacheInvalidate(k)
    \/ \E d \in CacheDeltas : CacheTick(d)

SpecCache == Init /\ [][CacheNext]_vars

UserCacheNext ==
    \/ \E u \in CacheUserIds, k \in UserCacheKeys, v \in CacheValues :
          SetUserCache(u, k, v, UserCacheTTL)
    \/ \E u \in CacheUserIds, k \in UserCacheKeys : GetUserCache(u, k)
    \/ \E u \in CacheUserIds, k \in UserCacheKeys \cup {<<>>} : InvalidateUserCache(u, k)
    \/ \E d \in CacheDeltas : CacheTick(d)

SpecUserCache == Init /\ [][UserCacheNext]_vars

----------------------------------------------------------------------------
(* Properties of the caches *)

\* this step is a call of MemoryCache.get
GetStep == req'.method = "MemoryCache.get" /\ nreq' = nreq + 1

\* C16: cache round trip. A get of a key under the category it was set under returns
\* the stored value while less than the TTL of the category has elapsed since the set
\* (at once after the set, and at 7199 s for property_data), and returns absent once
\* more than the TTL has elapsed (at 7201 s for property_data).
C16_CacheRoundTrip ==
    [][(GetStep /\ req'.key \in DOMAIN cache
                /\ set_category[req'.key] = req'.category) =>
          LET k == req'.key
              elapsed == now - timestamps[k]
              ttl == Sec(TTL(req'.category)) IN
          /\ elapsed < ttl => (ret'.via = "hit" /\ ret'.data = cache[k])
          /\ elapsed > ttl => (ret'.via = "miss" /\ ret'.data = NoData
                                  /\ k \notin DOMAIN cache')]_vars

\* a get of property_data 7199 s after the set has just returned the value
C16_Witness ==
    /\ req.method = "MemoryCache.get"
    /\ req.at = now
    /\ req.category = "property_data"
    /\ ret.via = "hit"
    /\ req.key \in DOMAIN cache
    /\ ret.data = cache[req.key]
    /\ set_category[req.key] = "property_data"
    /\ now - timestamps[req.key] = Sec(CACHE_TTL.property_data) - Sec(1)

\* C17: no stale reads. A get never returns an entry once now >= expiresAt, where
\* expiresAt = createdAt + the TTL of the category, the instant now = expiresAt
\* included.
C17_NoStaleReads ==
    [][(GetStep /\ ret'.via = "hit" /\ set_category[req'.key] = req'.category) =>
          now < timestamps[req'.key] + Sec(TTL(req'.category))]_vars

\* C18: the expiry of an entry is fixed by the category it was set under. A get under
\* any category returns the entry, and leaves it in the cache, while it is unexpired
\* under its own TTL, and does not return it once its own TTL has passed.
C18_ExpiryFixedAtWrite ==
    [][(GetStep /\ req'.key \in DOMAIN cache) =>
          LET k == req'.key
              elapsed == now - timestamps[k]
              own == Sec(TTL(set_category[k])) IN
          /\ elapsed < own => (ret'.via = "hit" /\ k \in DOMAIN cache')
          /\ elapsed > own => ret'.via = "miss"]_vars

\* C19: invalidating the cache of subject A, memory_cache.invalidate of
\* f"user_properties_{A}", leaves every entry of another subject B present and
\* unchanged.
C19_InvalidationScoped ==
    [][\A A \in CacheUserIds, B \in CacheUserIds :
          (/\ A # B
           /\ req'.method = "MemoryCache.invalidate"
           /\ nreq' = nreq + 1
           /\ req'.key = UserPropertiesKey(A)
           /\ UserPropertiesKey(B) \in DOMAIN cache) =>
              /\ UserPropertiesKey(B) \in DOMAIN cache'
              /\ cache'[UserPropertiesKey(B)] = cache[UserPropertiesKey(B)]
              /\ timestamps'[UserPropertiesKey(B)] = timestamps[UserPropertiesKey(B)]]_vars

\* CacheManager.get_user_cache returns no entry whose ttl has passed (it does not hold:
\* the body never compares the timestamp of the entry with its ttl)
UserCacheNoStaleReads ==
    [][(req'.method = "get_user_cache" /\ nreq' = nreq + 1 /\ ret'.via = "hit") =>
          now < ret'.data.timestamp + Sec(ret'.data.ttl)]_vars

\* CacheManager.invalidate_user_cache of user A leaves the entries of user B alone (it
\* holds: the prefix f"user_{A}_" ends with the separator)
UserCacheInvalidationScoped ==
    [][\A A \in CacheUserIds, B \in CacheUserIds, k \in UserCacheKeys :
          (/\ A # B
           /\ req'.method = "invalidate_user_cache"
           /\ nreq' = nreq + 1
           /\ req'.user_id = A
           /\ full_key(B, k) \in DOMAIN memory_cache) =>
              /\ full_key(B, k) \in DOMAIN memory_cache'
              /\ memory_cache'[full_key(B, k)] = memory_cache[full_key(B, k)]]_vars

----------------------------------------------------------------------------
(* src/1_*_Homepage.py: the ledger-backed limiter under concurrent sessions.   *)
(* Each session runs search_properties_enhanced; the steps are its operations  *)
(* on the table api_usage: the select of check_rate_limit and, after the calls *)
(* of session.get, the insert of log_enhanced_usage.                           *)

\* rate checks per behaviour
MaxLedgerChecks == 3

\* the clock of the sessions' specification stops here (ticks)
LedgerMaxTime == 36002

\* steps of the clock: half a window, and a tick more
LedgerDeltas == {Sec(SearchWindowSeconds) \div 2, Sec(SearchWindowSeconds) \div 2 + 1}

\* "rate_check = self.usage_manager.check_rate_limit(user_id, 'property_search')" and
\* what follows without touching the table: the return of "Rate limit exceeded", or the
\* return of a validation error (valid = FALSE), or the first session.get
SessionCheck(s, user_id, valid, dbOk) ==
    LET rc == LedgerCheckRateLimit(api_usage, user_id, "property_search", now, dbOk) IN
    /\ spc[s] = "out"
    /\ nreq < MaxLedgerChecks
    /\ nreq' = nreq + 1
    /\ srate' = [srate EXCEPT ![s] = rc]
    /\ sreq' = [sreq EXCEPT ![s] = [user_id |-> user_id, at |-> now]]
    /\ spc' = [spc EXCEPT ![s] = IF rc.allowed /\ valid THEN "net" ELSE "out"]
    /\ ledger_admitted' =
          IF rc.allowed /\ valid
          THEN [ledger_admitted EXCEPT ![user_id] = Append(@, now)]
          ELSE ledger_admitted
    /\ db_failed' = (db_failed \/ ~dbOk)
    /\ UNCHANGED <<now, rate_limiter, admitted, cache, timestamps, stats, ledger, pc, req,
                   attempt, start_time, delay, ret, nnet, netCalls, rlChecks, tracked,
                   sleeps, responses, writer, set_category, threadVars, api_usage,
                   st_cache, rate_check, userCacheVars, sharedVars, envVars,
                   callVars, pagesVars>>

\* the calls of session.get are over: log_enhanced_usage inserts the row of the request
\* (of a success, or through _log_api_error of a failure) and the session returns
SessionLog(s, success, dbOk) ==
    /\ spc[s] = "net"
    /\ api_usage' = LogEnhancedUsage(api_usage,
           LogRow(sreq[s].user_id, IF success THEN "search_params" ELSE "API_ERROR",
                  "property_search", success, None, 0, now), dbOk)
    /\ spc' = [spc EXCEPT ![s] = "out"]
    /\ db_failed' = (db_failed \/ ~dbOk)
    /\ UNCHANGED <<now, rate_limiter, admitted, clientVars, threadVars, st_cache,
                   rate_check, userCacheVars, sreq, srate, ledger_admitted, sharedVars,
                   envVars, callVars, pagesVars>>

SessionTick(d) ==
    /\ now + d <= LedgerMaxTime
    /\ now' = now + d
    /\ UNCHANGED <<rate_limiter, admitted, clientVars, threadVars, searchVars,
                   userCacheVars, sessionVars>>

LedgerNext ==
    \/ \E s \in Sessions, u \in Users, valid \in BOOLEAN, dbOk \in BOOLEAN :
          SessionCheck(s, u, valid, dbOk)
    \/ \E s \in Sessions, success \in BOOLEAN, dbOk \in BOOLEAN : SessionLog(s, success, dbOk)
    \/ \E d \in LedgerDeltas : SessionTick(d)

SpecLedger == Init /\ [][LedgerNext]_vars

----------------------------------------------------------------------------
(* What a denied admission reports *)

\* the rows of the ledger that lie in the window of the rate check of session s
CountedRows(s) ==
    RecentUsage(api_usage, sreq[s].user_id, "property_search",
                sreq[s].at - Sec(rate_limits["property_search"].window))

\* the creation time of the oldest of these rows
OldestCounted(s) ==
    CHOOSE t \in {api_usage[i].created_at : i \in CountedRows(s)} :
        \A i \in CountedRows(s) : t <= api_usage[i].created_at

\* the rate check of session s has just denied
JustDenied(s) ==
    /\ spc[s] = "out"
    /\ ~srate[s].allowed
    /\ sreq[s].at = now

\* C21: a denied admission reports remaining = 0 and a reset time equal to the time of
\* the oldest request still inside the window plus the window, the instant at which
\* that request leaves the window, and not the time of the denied call plus the window.
C21_DenialReportsReset ==
    \A s \in Sessions :
        JustDenied(s) =>
            /\ srate[s].remaining = 0
            /\ srate[s].reset_time =
                  OldestCounted(s) + Sec(rate_limits["property_search"].window)

----------------------------------------------------------------------------
(* The ledger-derived quota under concurrent sessions *)

\* the admitted requests of user u inside the interval [a, a + window]
LedgerAdmittedWithin(u, a) ==
    {i \in 1..Len(ledger_admitted[u]) :
        /\ ledger_admitted[u][i] >= a
        /\ ledger_admitted[u][i] <= a + Sec(rate_limits["property_search"].window)}

\* C22: the ledger-derived quota is race-free. While every query and insert on the
\* table succeeds, the read of the current usage and the later insert never let the
\* number of admitted requests of one user within a window exceed the limit, whatever
\* the interleaving of the user's concurrent sessions.
C22_LedgerQuotaRaceFree ==
    ~db_failed =>
        \A u \in Users : \A i \in 1..Len(ledger_admitted[u]) :
            Cardinality(LedgerAdmittedWithin(u, ledger_admitted[u][i]))
                <= rate_limits["property_search"].limit

----------------------------------------------------------------------------
(* src/551_*_Homepage.py: get_property_details & co. run by concurrent threads *)
(* over one MemoryCache and one EnhancedAPIUsageManager. MemoryCache.get, set  *)
(* and invalidate run "with self._lock"; check_rate_limit takes no lock.       *)

\* logical requests per behaviour
MaxSharedRequests == 3

\* session.get calls per behaviour
MaxSharedNetCalls == 3

\* the clock of the threads' requests stops here (ticks)
SharedMaxTime == 40

SharedMethods == {"get_property_details"}

SharedAddresses == {<<"1", " ", "E", "l", "m">>}

SharedPayloads == {"dict", "list"}

SharedStatusCodes == {200, 404, 500}

tkeyOf(t) == CacheKey(th[t].req.method, th[t].req.address)

\* some thread other than t is inside session.get or time.sleep
OthersBlocked(t) == \E u \in Threads \ {t} : th[u].pc \in {"net", "sleep"}

\* the thread returns to the caller of get_property_details & co.
Returned(r, data, error, via, blocked) ==
    [r EXCEPT !.pc = "idle",
              !.ret = [data |-> data, error |-> error, via |-> via,
                       others_blocked |-> blocked, at |-> now]]

\* a variant in which leaving a "with self._lock:" block does not release the lock
LockKeptAfterWith(t) == t

\* the holder of the lock once thread t has left a "with self._lock:" block
LockAfterWith(t) == "free"

\* get_property_details(address, user_id) up to "memory_cache.get(...)": validation,
\* cache key
ThreadCall(t, method, user_id, address) ==
    /\ th[t].pc = "idle"
    /\ nreq < MaxSharedRequests
    /\ nreq' = nreq + 1
    /\ th' = [th EXCEPT ![t] =
          IF ~ValidAddress(address)
          THEN Returned([@ EXCEPT !.req = [method |-> method, user_id |-> user_id,
                                           address |-> address]],
                        NoData, ErrInvalid, "validation", OthersBlocked(t))
          ELSE [@ EXCEPT !.pc = "get",
                         !.req = [method |-> method, user_id |-> user_id,
                                  address |-> address],
                         !.attempt = 0, !.data = NoData, !.error = None,
                         !.ret = [data |-> NoData, error |-> None, via |-> "pending",
                                  others_blocked |-> FALSE, at |-> now]]]
    /\ UNCHANGED <<now, rate_limiter, admitted, cache, timestamps, stats, ledger, writer,
                   set_category, pc, req, attempt, start_time, delay, ret, nnet, netCalls,
                   rlChecks, tracked, sleeps, responses, threadVars, searchVars,
                   userCacheVars, ledgerVars, envVars, callVars, pagesVars, lock, val_by,
                   ts_by>>

\* what an action of a thread on the cache alone leaves unchanged
sharedFrame ==
    <<now, rate_limiter, admitted, ledger, pc, req, attempt, start_time, delay, ret, nreq,
      nnet, netCalls, rlChecks, tracked, sleeps, responses, threadVars, searchVars,
      userCacheVars, ledgerVars, envVars, callVars, pagesVars>>

\* MemoryCache.get: "with self._lock:"
GetAcquire(t) ==
    /\ th[t].pc = "get"
    /\ lock = "free"
    /\ lock' = t
    /\ th' = [th EXCEPT ![t].pc = "get_body"]
    /\ UNCHANGED <<sharedFrame, cache, timestamps, stats, writer, set_category, val_by,
                   ts_by>>

\* the body of MemoryCache.get, which runs under the lock from its first statement to
\* its last, the end of the with block, and in the caller
\* "if cached_data: return cached_data, None"
GetBody(t) ==
    LET k == tkeyOf(t)
        present == k \in DOMAIN cache
        expired == present /\ Expired(k, "property_data")
        cached_data == CacheGetValue(k, "property_data") IN
    /\ th[t].pc = "get_body"
    /\ stats' = [stats EXCEPT !["property_data"] = CountGet(@, present /\ ~expired)]
    /\ IF expired
       THEN /\ cache' = Remove(cache, k)
            /\ timestamps' = Remove(timestamps, k)
            /\ writer' = Remove(writer, k)
            /\ set_category' = Remove(set_category, k)
            /\ val_by' = Remove(val_by, k)
            /\ ts_by' = Remove(ts_by, k)
       ELSE UNCHANGED <<cache, timestamps, writer, set_category, val_by, ts_by>>
    /\ lock' = LockAfterWith(t)
    /\ th' = [th EXCEPT ![t] =
          IF Truthy(cached_data)
          THEN Returned(@, cached_data, None, "cache", OthersBlocked(t))
          ELSE [@ EXCEPT !.pc = "loop"]]
    /\ UNCHANGED sharedFrame

\* top of the loop body of _make_request_with_retry: start_time, then the rate check
ThreadLoopTop(t) ==
    LET k == RateKey(th[t].req.user_id, Endpoint(th[t].req.method))
        r == CheckRateLimit(rate_limiter[k], now, Quota) IN
    /\ th[t].pc = "loop"
    /\ rate_limiter' = [rate_limiter EXCEPT ![k] = r[2]]
    /\ admitted' = [admitted EXCEPT ![k] = IF r[1] THEN Append(@, now) ELSE @]
    /\ th' = [th EXCEPT ![t] =
          IF r[1]
          THEN [@ EXCEPT !.pc = "net", !.start_time = now,
                         !.ret.others_blocked = OthersBlocked(t)]
          ELSE Returned([@ EXCEPT !.start_time = now], NoData, ErrRateLimit,
                        "rate_limit", OthersBlocked(t))]
    /\ UNCHANGED <<now, cache, timestamps, stats, ledger, writer, set_category, pc, req,
                   attempt, start_time, delay, ret, nreq, nnet, netCalls, rlChecks,
                   tracked, sleeps, responses, threadVars, searchVars, userCacheVars,
                   ledgerVars, envVars, callVars, pagesVars, lock, val_by, ts_by>>

\* what a response of session.get leaves unchanged
netFrame ==
    <<now, rate_limiter, admitted, cache, timestamps, stats, writer, set_category, pc,
      req, attempt, start_time, delay, ret, nreq, netCalls, rlChecks, tracked, sleeps,
      responses, threadVars, searchVars, userCacheVars, ledgerVars, envVars, callVars,
      pagesVars, lock, val_by, ts_by>>

ThreadAttempt(t) ==
    /\ th[t].pc = "net"
    /\ nnet < MaxSharedNetCalls
    /\ nnet' = nnet + 1

\* the insert of track_api_call
ThreadTrack(t, success, error) ==
    Tracked(ledger,
            <<UsageRecord(th[t].req.user_id, Endpoint(th[t].req.method), success,
                          now - th[t].start_time, error)>>, <<db_up>>)

\* status 200: track_api_call(user_id, endpoint, True, response_time) inserts the row;
\* its invalidation of the cache is the next step
ThreadRespond200(t, body) ==
    /\ ThreadAttempt(t)
    /\ ledger' = ThreadTrack(t, TRUE, None)
    /\ th' = [th EXCEPT ![t].pc = "track", ![t].data = Enrich(th[t].req.method, body),
                        ![t].error = None]
    /\ UNCHANGED netFrame

\* 500, 502, 503, 504: time.sleep(delay); continue, or the last error
ThreadRespondServerError(t, code, jitter) ==
    /\ ThreadAttempt(t)
    /\ RetryableStatus(code)
    /\ IF th[t].attempt < max_retries
       THEN /\ th' = [th EXCEPT ![t].pc = "sleep",
                         ![t].wake = now + BackoffDelay(th[t].attempt, base_delay, jitter)]
            /\ UNCHANGED ledger
       ELSE /\ ledger' = ThreadTrack(t, FALSE, StatusError(code))
            /\ th' = [th EXCEPT ![t].pc = "track", ![t].data = NoData,
                                ![t].error = StatusError(code)]
    /\ UNCHANGED netFrame

\* 401, 404 and every other status: break, then the failure is tracked
ThreadRespondTerminal(t, code) ==
    /\ ThreadAttempt(t)
    /\ code \notin {200, 429}
    /\ ~RetryableStatus(code)
    /\ ledger' = ThreadTrack(t, FALSE, StatusError(code))
    /\ th' = [th EXCEPT ![t].pc = "track", ![t].data = NoData,
                        ![t].error = StatusError(code)]
    /\ UNCHANGED netFrame

\* the end of track_api_call: memory_cache.invalidate(f"usage_{user_id}"), which runs
\* under the lock from its first statement to its last; then _make_request_with_retry
\* returns, and the caller goes on to memory_cache.set with a result that is truthy
ThreadTrackInvalidate(t) ==
    /\ th[t].pc = "track"
    /\ lock = "free"
    /\ cache' = TrackInvalidated(cache, th[t].req.user_id)
    /\ timestamps' = TrackInvalidated(timestamps, th[t].req.user_id)
    /\ writer' = TrackInvalidated(writer, th[t].req.user_id)
    /\ set_category' = TrackInvalidated(set_category, th[t].req.user_id)
    /\ val_by' = TrackInvalidated(val_by, th[t].req.user_id)
    /\ ts_by' = TrackInvalidated(ts_by, th[t].req.user_id)
    /\ th' = [th EXCEPT ![t] =
          IF th[t].error # None
          THEN Returned(@, NoData, th[t].error, "failure", OthersBlocked(t))
          ELSE IF Truthy(th[t].data)
          THEN [@ EXCEPT !.pc = "set"]
          ELSE Returned(@, NoData, None, "empty", OthersBlocked(t))]
    /\ UNCHANGED <<sharedFrame, stats, lock>>

\* MemoryCache.set: "with self._lock:"
SetAcquire(t) ==
    /\ th[t].pc = "set"
    /\ lock = "free"
    /\ lock' = t
    /\ th' = [th EXCEPT ![t].pc = "set_body"]
    /\ UNCHANGED <<sharedFrame, cache, timestamps, stats, writer, set_category, val_by,
                   ts_by>>

\* a variant of the body of set that keeps the timestamp of an entry that has one
SetBodyKeepsTimestamp(t) ==
    /\ th[t].pc = "set_body"
    /\ cache' = Put(cache, tkeyOf(t), th[t].data)
    /\ writer' = Put(writer, tkeyOf(t), th[t].req.user_id)
    /\ set_category' = Put(set_category, tkeyOf(t), "property_data")
    /\ val_by' = Put(val_by, tkeyOf(t), t)
    /\ IF tkeyOf(t) \in DOMAIN timestamps
       THEN UNCHANGED <<timestamps, ts_by>>
       ELSE /\ timestamps' = Put(timestamps, tkeyOf(t), now)
            /\ ts_by' = Put(ts_by, tkeyOf(t), t)
    /\ lock' = LockAfterWith(t)
    /\ th' = [th EXCEPT ![t] = Returned(@, th[t].data, None, "success", OthersBlocked(t))]
    /\ UNCHANGED <<sharedFrame, stats>>

\* the body of MemoryCache.set, "self._cache[key] = value" and
\* "self._timestamps[key] = time.time()" under the lock, the end of the with block, and
\* in the caller "return enriched_data, None"
SetBody(t) ==
    /\ th[t].pc = "set_body"
    /\ cache' = Put(cache, tkeyOf(t), th[t].data)
    /\ writer' = Put(writer, tkeyOf(t), th[t].req.user_id)
    /\ set_category' = Put(set_category, tkeyOf(t), "property_data")
    /\ val_by' = Put(val_by, tkeyOf(t), t)
    /\ timestamps' = Put(timestamps, tkeyOf(t), now)
    /\ ts_by' = Put(ts_by, tkeyOf(t), t)
    /\ lock' = LockAfterWith(t)
    /\ th' = [th EXCEPT ![t] = Returned(@, th[t].data, None, "success", OthersBlocked(t))]
    /\ UNCHANGED <<sharedFrame, stats>>

\* time.sleep(delay) is over: continue with the next attempt
ThreadWake(t) ==
    /\ th[t].pc = "sleep"
    /\ now >= th[t].wake
    /\ th' = [th EXCEPT ![t].pc = "loop", ![t].attempt = @ + 1]
    /\ UNCHANGED <<sharedFrame, cache, timestamps, stats, writer, set_category, lock,
                   val_by, ts_by>>

\* time passes while a thread sleeps, up to the end of the sleep
SharedAdvance(t) ==
    /\ th[t].pc = "sleep"
    /\ now < th[t].wake
    /\ th[t].wake <= SharedMaxTime
    /\ now' = th[t].wake
    /\ UNCHANGED <<rate_limiter, admitted, clientVars, threadVars, searchVars,
                   userCacheVars, sessionVars>>

SharedNext ==
    \/ \E t \in Threads, m \in SharedMethods, u \in Users, a \in SharedAddresses :
          ThreadCall(t, m, u, a)
    \/ \E t \in Threads : GetAcquire(t)
    \/ \E t \in Threads : GetBody(t)
    \/ \E t \in Threads : ThreadLoopTop(t)
    \/ \E t \in Threads, b \in SharedPayloads : ThreadRespond200(t, b)
    \/ \E t \in Threads, c \in SharedStatusCodes, j \in MidJitters :
          ThreadRespondServerError(t, c, j)
    \/ \E t \in Threads, c \in SharedStatusCodes : ThreadRespondTerminal(t, c)
    \/ \E t \in Threads : ThreadTrackInvalidate(t)
    \/ \E t \in Threads : SetAcquire(t)
    \/ \E t \in Threads : SetBody(t)
    \/ \E t \in Threads : ThreadWake(t)
    \/ \E t \in Threads : SharedAdvance(t)

SpecShared == Init /\ [][SharedNext]_vars

----------------------------------------------------------------------------
(* Locks and blocking *)

\* thread t is inside session.get or time.sleep
Blocked(t) == th[t].pc \in {"net", "sleep"}

\* C23: no lock is held while blocked. A thread that is inside a network call or a
\* backoff sleep does not hold the lock of the cache (the rate limiter has none): the
\* lock is held only by a thread inside the body of MemoryCache.get or set, so another
\* request can be served from the cache or admitted by the limiter meanwhile.
C23_NoLockWhileBlocked ==
    /\ \A t \in Threads : Blocked(t) => lock # t
    /\ lock # "free" => th[lock].pc \in {"get_body", "set_body"}

\* while one thread sleeps between two attempts, the other has been admitted by the
\* limiter, has stored its result and has then been served from the cache
C23_Witness ==
    \E t \in Threads, u \in Threads :
        /\ t # u
        /\ th[t].pc = "sleep"
        /\ th[u].pc = "idle"
        /\ th[u].ret.via = "cache"
        /\ th[u].ret.others_blocked
        /\ Len(admitted[RateKey(th[u].req.user_id, Endpoint(th[u].req.method))]) > 0

----------------------------------------------------------------------------
(* Concurrent misses on one key *)

\* threads t and u have both missed on one key, fetched and stored, and have returned
BothPopulated(t, u) ==
    /\ t # u
    /\ th[t].pc = "idle" /\ th[t].ret.via = "success"
    /\ th[u].pc = "idle" /\ th[u].ret.via = "success"
    /\ tkeyOf(t) = tkeyOf(u)

\* the entry of key k is the value that one thread fetched, with the timestamp of that
\* thread's set
OneWriter(k) ==
    /\ k \in DOMAIN cache
    /\ k \in DOMAIN timestamps
    /\ ts_by[k] = val_by[k]
    /\ cache[k] = th[val_by[k]].ret.data
    /\ timestamps[k] = th[val_by[k]].ret.at

PopulatedOnce ==
    \A t \in Threads, u \in Threads : BothPopulated(t, u) => OneWriter(tkeyOf(t))

\* thread t is served from the cache in this step
HitStep(t) ==
    /\ th[t].pc = "get_body"
    /\ th'[t].pc = "idle"
    /\ th'[t].ret.via = "cache"

\* C24: idempotent cache population. When two concurrent requests miss on the same key
\* and both fetch successfully, then after both have finished the cache holds for that
\* key exactly one of the two fetched values with the timestamp of the same set (the
\* last writer wins, no mixed state), and a get that follows returns that value and
\* leaves the entry as it is.
C24_IdempotentPopulation ==
    [][/\ PopulatedOnce'
       /\ \A t \in Threads :
             HitStep(t) =>
                 /\ th'[t].ret.data = cache[tkeyOf(t)]
                 /\ cache' = cache
                 /\ timestamps' = timestamps]_vars

\* two threads have missed on one key and have stored two different values; the cache
\* holds the one stored last
C24_Witness ==
    \E t \in Threads, u \in Threads :
        /\ BothPopulated(t, u)
        /\ th[t].ret.data # th[u].ret.data
        /\ val_by[tkeyOf(t)] = u
        /\ cache[tkeyOf(t)] = th[u].ret.data

----------------------------------------------------------------------------
(* An overall deadline of the caller *)

\* the overall deadline that the caller of the request has, counted from the call: the
\* request is the first of its behaviour and is made at time 0
CallerDeadline == Sec(5)

\* C25: a caller-supplied overall deadline aborts the retry loop early. The client
\* never starts a backoff or Retry-After sleep that would end after the deadline: it
\* returns at once with a TimedOut error instead, and records usage with success false.
C25_DeadlineAbortsRetries ==
    (~IsSearch /\ pc = "sleep") => now + delay <= CallerDeadline

----------------------------------------------------------------------------
(* One logical request of either client while the usage table may be down *)

\* the table portal_api_usage stops accepting inserts
DatabaseDown ==
    /\ db_up
    /\ db_up' = FALSE
    /\ UNCHANGED <<now, rate_limiter, admitted, clientVars, threadVars, searchVars,
                   userCacheVars, ledgerVars, sharedVars, callVars, pagesVars>>

\* the table accepts inserts again
DatabaseUp ==
    /\ ~db_up
    /\ db_up' = TRUE
    /\ UNCHANGED <<now, rate_limiter, admitted, clientVars, threadVars, searchVars,
                   userCacheVars, ledgerVars, sharedVars, callVars, pagesVars>>

RecordNext ==
    \/ RetryNext
    \/ DatabaseDown
    \/ DatabaseUp

SpecRecord == Init /\ [][RecordNext]_vars

\* the errors that the client computes from the last answer of session.get
ComputedErrors(r) ==
    IF IsSearch
    THEN CASE r.exc = "Timeout" -> {"Request timeout"}
           [] r.exc = "RequestException" -> {"Request failed"}
           [] r.code = 200 -> {None, "Request failed", "Unexpected error"}
           [] r.code = 429 -> {"Rate limit exceeded"}
           [] r.code = 401 -> {"API authentication failed"}
           [] OTHER -> {SearchStatusError(r.code)}
    ELSE CASE r.exc = "Timeout" -> {"Request timeout"}
           [] r.exc = "ConnectionError" -> {"Connection error"}
           [] r.exc = "Exception" -> {"Unexpected error"}
           [] r.code = 200 -> {None, "Unexpected error"}
           [] OTHER -> {StatusError(r.code)}

\* C26: recording usage never fails the caller. Whether or not the insert of the usage
\* record goes through, track_api_call / log_enhanced_usage returns normally and the
\* request returns the outcome it has computed from the answer of the upstream: the
\* value of a 200, or the error of its class.
C26_RecordingNeverFailsCaller ==
    (pc = "idle" /\ responses # <<>>) =>
        /\ ret.via \in {"success", "empty", "failure"}
        /\ ret.error \in ComputedErrors(LastResponse)
        /\ ret.error = None <=> ret.via \in {"success", "empty"}
        /\ ret.via = "success" => LastResponse.code = 200
        /\ (~IsSearch /\ ret.via = "success") => Truthy(ret.data)

\* a request of 551_Homepage has returned the fetched value although the insert of its
\* usage record raised
C26_Witness ==
    /\ ~IsSearch
    /\ pc = "idle"
    /\ ~db_up
    /\ tracked = 1
    /\ ledger = <<>>
    /\ ret.via = "success"
    /\ key \in DOMAIN cache

----------------------------------------------------------------------------
(* The client of 551_Homepage over a time long enough for its entries to expire *)

\* the clock stops advancing here (ticks)
PopulateMaxTime == 75000

\* the time after which an entry of the category property_data has expired
ExpiryDeltas == {Sec(TTL("property_data")) + 1}

\* the entries of the category property_data expire between two logical requests
Expire(d) ==
    /\ pc = "idle"
    /\ now + d <= PopulateMaxTime
    /\ now' = now + d
    /\ UNCHANGED <<rate_limiter, clientVars, admitted, threadVars, searchVars, userCacheVars,
                   sessionVars>>

PopulateNext ==
    \/ Next
    \/ \E d \in ExpiryDeltas : Expire(d)
    \/ SleepUntil(PopulateMaxTime)

SpecPopulate == Init /\ [][PopulateNext]_vars

\* the logical request has ended without a result: validation, rate limit denial,
\* terminal error, exhausted retries or an empty result
EndedInFailure ==
    Finished /\ ret.via \in {"validation", "rate_limit", "failure", "empty"}

\* the step on which the logical request returns a fetched result
SuccessStep == pc # "idle" /\ pc' = "idle" /\ ret'.via = "success"

\* the step is the call of a request identical to the one that has succeeded, with no
\* time gone by since that request stored its result
IdenticalCallStep ==
    /\ Finished
    /\ ret.via = "success"
    /\ key \in DOMAIN timestamps
    /\ timestamps[key] = now
    /\ nreq' = nreq + 1
    /\ req'.method = req.method
    /\ Strip(req'.address) = Strip(req.address)
    /\ now' = now

\* a request that succeeds stores what it returns under its key, and an identical
\* request that follows at once is a cache hit on it
SuccessPopulates ==
    /\ SuccessStep =>
          /\ key \in DOMAIN cache'
          /\ cache'[key] = ret'.data
          /\ timestamps'[key] = now'
          /\ Truthy(ret'.data)
    /\ IdenticalCallStep =>
          /\ ret'.via = "cache"
          /\ ret'.data = ret.data
          /\ netCalls' = 0

\* C27 as stated: only successes populate the cache. A logical request that ends in a
\* failure leaves the cache map as it found it, and a request that ends in success has
\* stored its result under its key, so that an identical request made at once is a hit.
C27_OnlySuccessesPopulate ==
    [][/\ EndedInFailure' => (cache' = at_call'.cache /\ timestamps' = at_call'.timestamps)
       /\ SuccessPopulates]_vars

\* the cache as the request found it, less the entry under the request's key when the
\* lookup of the request found that entry expired
AtCallLessExpired(f) == IF at_call.expired THEN Remove(f, key) ELSE f

\* C27 amended: only successes populate the cache. A logical request that ends in a
\* failure leaves the cache map as it found it, but for the entry under its own key that
\* its lookup found expired and deleted; a request that ends in success has stored its
\* result under its key, so that an identical request made at once is a hit.
C27_OnlySuccessesPopulateLive ==
    [][/\ EndedInFailure' =>
            /\ cache' = AtCallLessExpired(at_call.cache)'
            /\ timestamps' = AtCallLessExpired(at_call.timestamps)'
       /\ SuccessPopulates]_vars

\* a request has failed after its lookup deleted the expired entry of an earlier success
C27_Witness ==
    /\ EndedInFailure
    /\ ret.via = "failure"
    /\ at_call.expired
    /\ key \in DOMAIN at_call.cache
    /\ key \notin DOMAIN cache
    /\ nreq = 2

\* an identical request has hit the entry that the request before it stored
C27_HitWitness ==
    /\ Finished
    /\ ret.via = "cache"
    /\ nreq = 2
    /\ key \in DOMAIN cache
    /\ timestamps[key] = now
    /\ stats["property_data"].hits = 1

----------------------------------------------------------------------------
(* Threads of 551_Homepage over a time long enough for an entry to expire *)

\* the clock stops advancing here (ticks)
GetsMaxTime == 72100

\* time passes, whatever the threads are doing, until the entries of the category
\* property_data have expired
SharedExpire(d) ==
    /\ now <= SharedMaxTime
    /\ now + d <= GetsMaxTime
    /\ now' = now + d
    /\ UNCHANGED <<rate_limiter, admitted, clientVars, threadVars, searchVars,
                   userCacheVars, sessionVars>>

GetsNext ==
    \/ SharedNext
    \/ \E d \in ExpiryDeltas : SharedExpire(d)

SpecGets == Init /\ [][GetsNext]_vars

\* thread t runs the body of MemoryCache.get on this step
GetBodyStep(t) == th[t].pc = "get_body" /\ th'[t].pc # "get_body"

\* the key of thread t is absent from the cache, or its entry is older than the TTL
AbsentOrExpired(t) ==
    \/ tkeyOf(t) \notin DOMAIN cache
    \/ now - timestamps[tkeyOf(t)] > Sec(CACHE_TTL["property_data"])

----------------------------------------------------------------------------
(* The client of 551_Homepage with bodies on which the enrichment raises *)

RaisingPayloads == {"list", DictTextRent}

EnrichNext ==
    \/ Next
    \/ \E b \in RaisingPayloads : Respond200(b)

SpecEnrich == Init /\ [][EnrichNext]_vars

\* C29: enrichment failures do not fail the request. When _enrich_property_data or
\* _add_investment_metrics raises internally on the fetched body, the request still
\* succeeds, and the value that it caches and returns is the raw upstream data.
C29_EnrichmentNeverFails ==
    [][\A b \in Payloads \cup RaisingPayloads :
          (Respond200(b) /\ EnrichRaises(req.method, b)) =>
              /\ pc' = "idle"
              /\ ret'.via = "success"
              /\ ret'.error = None
              /\ ret'.data.raw = b
              /\ key \in DOMAIN cache'
              /\ cache'[key] = ret'.data]_vars

\* get_rent_estimate has returned and cached a body on which _add_investment_metrics
\* raised
C29_Witness ==
    /\ Finished
    /\ req.method = "get_rent_estimate"
    /\ ret.via = "success"
    /\ ret.data = [raw |-> DictTextRent, extra |-> FALSE]
    /\ key \in DOMAIN cache
    /\ cache[key] = ret.data
    /\ tracked = 1

----------------------------------------------------------------------------
(* EnhancedAPIUsageManager: track_api_call and get_usage_analytics called directly *)

\* calls per behaviour
MaxAnalyticsCalls == 4

\* the clock stops advancing here (ticks), well within one day and one month
AnalyticsMaxTime == 6100

\* the time after which an entry of the category api_usage has expired
AnalyticsDeltas == {Sec(TTL("api_usage")) + 1}

\* cache_key = f"usage_analytics_{user_id}"
AnalyticsKey(user_id) == <<"usage_", "analytics_", user_id>>

\* the analytics dict computed from the rows of the user; every row of a behaviour is of
\* today and of this month
Analytics(rows, user_id) ==
    LET mine == {i \in 1..Len(rows) : rows[i].user_id = user_id} IN
    [raw |-> "dict",
     total_calls |-> Cardinality(mine),
     successful_calls |-> Cardinality({i \in mine : rows[i].success})]

\* "return {}" of the except clause
NoAnalytics == [raw |-> "empty", total_calls |-> 0, successful_calls |-> 0]

\* what a call of the usage manager leaves alone
analyticsFrame ==
    <<now, rate_limiter, admitted, pc, attempt, start_time, delay, nnet, netCalls,
      rlChecks, sleeps, responses, threadVars, searchVars, userCacheVars, sessionVars>>

AnalyticsOp(method, user_id) ==
    /\ pc = "idle"
    /\ nreq < MaxAnalyticsCalls
    /\ nreq' = nreq + 1
    /\ req' = [method |-> method, user_id |-> user_id, address |-> NoAddress]
    /\ UNCHANGED analyticsFrame

\* track_api_call(user_id, endpoint, success, response_time, error_message)
TrackApiCall(user_id, success) ==
    /\ AnalyticsOp("track_api_call", user_id)
    /\ ledger' = Tracked(ledger,
                         <<UsageRecord(user_id, "properties", success, 0,
                                       IF success THEN None ELSE StatusError(500))>>,
                         <<db_up>>)
    /\ tracked' = tracked + 1
    /\ cache' = TrackInvalidated(cache, user_id)
    /\ timestamps' = TrackInvalidated(timestamps, user_id)
    /\ writer' = TrackInvalidated(writer, user_id)
    /\ set_category' = TrackInvalidated(set_category, user_id)
    /\ ret' = [data |-> NoData, error |-> None, via |-> "tracked"]
    /\ UNCHANGED stats

\* get_usage_analytics(user_id)
GetUsageAnalytics(user_id) ==
    LET k == AnalyticsKey(user_id)
        present == k \in DOMAIN cache
        expired == present /\ Expired(k, "api_usage")
        cached_data == CacheGetValue(k, "api_usage")
        analytics == Analytics(ledger, user_id) IN
    /\ AnalyticsOp("get_usage_analytics", user_id)
    /\ stats' = [stats EXCEPT !["api_usage"] = CountGet(@, present /\ ~expired)]
    /\ UNCHANGED <<ledger, tracked>>
    /\ IF present /\ ~expired /\ Truthy(cached_data)
       THEN /\ ret' = [data |-> cached_data, error |-> None, via |-> "cache"]
            /\ UNCHANGED <<cache, timestamps, writer, set_category>>
       ELSE IF db_up
       THEN /\ cache' = Put(cache, k, analytics)
            /\ timestamps' = Put(timestamps, k, now)
            /\ writer' = Put(writer, k, user_id)
            /\ set_category' = Put(set_category, k, "api_usage")
            /\ ret' = [data |-> analytics, error |-> None, via |-> "computed"]
       ELSE /\ cache' = Remove(cache, k)
            /\ timestamps' = Remove(timestamps, k)
            /\ writer' = Remove(writer, k)
            /\ set_category' = Remove(set_category, k)
            /\ ret' = [data |-> NoAnalytics, error |-> None, via |-> "exception"]

AnalyticsTick(d) ==
    /\ pc = "idle"
    /\ now + d <= AnalyticsMaxTime
    /\ now' = now + d
    /\ UNCHANGED <<rate_limiter, clientVars, admitted, threadVars, searchVars, userCacheVars,
                   sessionVars>>

AnalyticsNext ==
    \/ \E u \in Users, success \in BOOLEAN : TrackApiCall(u, success)
    \/ \E u \in Users : GetUsageAnalytics(u)
    \/ \E d \in AnalyticsDeltas : AnalyticsTick(d)
    \/ DatabaseDown
    \/ DatabaseUp

SpecAnalytics == Init /\ [][AnalyticsNext]_vars

\* the rows of the ledger that record calls of the user
RowsOf(user_id) == {i \in 1..Len(ledger) : ledger[i].user_id = user_id}

\* C30: after track_api_call has recorded a call for a user, the cached usage analytics
\* of that user are invalidated: the next get_usage_analytics of the user recomputes
\* from the ledger, and its counts include the new record.
C30_TrackInvalidatesAnalytics ==
    (req.method = "get_usage_analytics" /\ ret.via \in {"cache", "computed"}) =>
        ret.data.total_calls = Cardinality(RowsOf(req.user_id))

----------------------------------------------------------------------------
(* Termination of the retry loop *)

\* C31: whatever the upstream answers, _make_request_with_retry ends after at most
\* max_retries + 1 network attempts and at most max_retries sleeps, and it sleeps only
\* when another network attempt follows the sleep: a request that has returned after n
\* sleeps has made n + 1 network attempts.
C31_BoundedAttempts ==
    ~IsSearch =>
        /\ netCalls <= max_retries + 1
        /\ sleeps <= max_retries
        /\ pc = "sleep" => attempt < max_retries
        /\ (pc = "idle" /\ sleeps > 0) => netCalls = sleeps + 1

----------------------------------------------------------------------------
(* check_rate_limit called for several users and endpoints *)

\* the clock stops advancing here (ticks)
WindowsMaxTime == 700

\* the (user_id, endpoint) pairs of the calls: two users of one endpoint, and two
\* endpoints of one user
WindowPairs ==
    {<<"u1", "properties">>, <<"u2", "properties">>, <<"u1", "rent-estimate">>}

WindowsTick(d) ==
    /\ now + d <= WindowsMaxTime
    /\ now' = now + d
    /\ UNCHANGED <<rate_limiter, clientVars, admitted, threadVars, searchVars, userCacheVars,
                   sessionVars>>

WindowsNext ==
    \/ \E p \in WindowPairs : CheckRateLimitCall(p[1], p[2])
    \/ \E d \in Deltas : WindowsTick(d)

SpecWindows == Init /\ [][WindowsNext]_vars

\* the text of the key, f"{user_id}_{endpoint}", of a user id and an endpoint given as
\* sequences of pieces of text
KeyText(user_id, endpoint) == user_id \o <<"_">> \o endpoint

\* user ids, with and without "_", and the endpoints of the three callers
TextUsers == {<<"7">>, <<"7", "_", "1">>, <<"7", "_", "properties">>, <<"properties">>}

TextEndpoints == {<<"properties">>, <<"rent-estimate">>, <<"comparable-sales">>}

\* a call of check_rate_limit at time t on the window q would be admitted
Admits(q, t) == CheckRateLimit(q, t, Quota)[1]

\* C32: the windows of distinct (user_id, endpoint) pairs are independent. Distinct pairs
\* have distinct keys, and a call of check_rate_limit for one pair leaves the window of
\* every other pair as it was, timestamp by timestamp, and with it whether that other
\* pair is admitted: one subject cannot consume the capacity of another.
C32_WindowsIndependent ==
    /\ [](\A u1 \in TextUsers, u2 \in TextUsers, e1 \in TextEndpoints, e2 \in TextEndpoints :
            KeyText(u1, e1) = KeyText(u2, e2) => (u1 = u2 /\ e1 = e2))
    /\ [][(now' = now /\ req'.method = "check_rate_limit") =>
            \A u \in Users, e \in Endpoints :
                (u # req'.user_id \/ e # req'.endpoint) =>
                    /\ rate_limiter'[<<u, e>>] = rate_limiter[<<u, e>>]
                    /\ Admits(rate_limiter'[<<u, e>>], now')
                          = Admits(rate_limiter[<<u, e>>], now)]_vars

\* u2 has just been admitted to the endpoint for which the window of u1 is full, and u1
\* has a timestamp in the window of its other endpoint
C32_Witness ==
    /\ req.method = "check_rate_limit"
    /\ req.user_id = "u2"
    /\ req.at = now
    /\ ret.via = "admitted"
    /\ ~Admits(rate_limiter[<<"u1", "properties">>], now)
    /\ Len(rate_limiter[<<"u1", "rent-estimate">>]) = 1
    /\ Len(rate_limiter[<<"u2", "properties">>]) = 1

----------------------------------------------------------------------------
(* Denied calls and the window *)

\* the step is a call of check_rate_limit that is denied
DeniedStep == now' = now /\ req'.method = "check_rate_limit" /\ ret'.via = "denied"

\* the instant from which a call on the window q is admitted again: at once when there is
\* room, else when the oldest of the last Quota timestamps has left the window
ReadmittedAfter(q) ==
    IF Len(q) < Quota THEN 0 ELSE q[Len(q) - Quota + 1] + Sec(WindowSeconds)

\* q is what is left of p after its oldest timestamps have been dropped
IsSuffix(q, p) ==
    /\ Len(q) <= Len(p)
    /\ q = SubSeq(p, Len(p) - Len(q) + 1, Len(p))

\* C33: a denied check_rate_limit consumes no quota. But for the pruning of timestamps
\* older than the window it leaves the window of its key as it was, appending nothing,
\* so that denied calls, however many, never delay the instant from which the key is
\* admitted again.
C33_DenialConsumesNothing ==
    [][DeniedStep =>
          LET k == <<req'.user_id, req'.endpoint>> IN
          /\ IsSuffix(rate_limiter'[k], rate_limiter[k])
          /\ Len(rate_limiter'[k]) = Quota
          /\ ReadmittedAfter(rate_limiter'[k]) = ReadmittedAfter(rate_limiter[k])
          /\ \A d \in LimiterDeltas :
                Admits(rate_limiter'[k], now + d) = Admits(rate_limiter[k], now + d)]_vars

\* a call has just been denied at the very instant at which the oldest timestamp of its
\* full window is one window old, after which the key is admitted again
C33_Witness ==
    /\ req.method = "check_rate_limit"
    /\ ret.via = "denied"
    /\ req.at = now
    /\ Len(rate_limiter[req.key]) = Quota
    /\ now = rate_limiter[req.key][1] + Sec(WindowSeconds)
    /\ Len(admitted[req.key]) > Quota

----------------------------------------------------------------------------
(* The ledger-derived quota while the table is out of reach *)

\* the rows of the user of session s that a working query would count now
RowsInWindow(s) ==
    RecentUsage(api_usage, sreq[s].user_id, "property_search",
                now - Sec(rate_limits["property_search"].window))

\* C34: the ledger-backed rate limiter fails open. When the query of check_rate_limit
\* raises, or no database client is configured, the call answers allowed = True with
\* remaining = 999 and the search goes on to the network: while the ledger is out of
\* reach no request is denied, however many the user has made within the window.
C34_FailsOpen ==
    [][\A s \in Sessions, u \in Users, valid \in BOOLEAN :
          SessionCheck(s, u, valid, FALSE) =>
              /\ srate'[s].allowed
              /\ srate'[s].remaining = FailOpenRemaining
              /\ valid => /\ spc'[s] = "net"
                          /\ ledger_admitted'[u] = Append(ledger_admitted[u], now)]_vars

\* a request has just been admitted by a check whose query raised, although the ledger
\* holds the limit's worth of rows of its user within the window
C34_Witness ==
    \E s \in Sessions :
        /\ spc[s] = "net"
        /\ sreq[s].at = now
        /\ srate[s].current_usage = -1
        /\ srate[s].allowed
        /\ Cardinality(RowsInWindow(s)) >= rate_limits["property_search"].limit
        /\ Len(ledger_admitted[sreq[s].user_id]) > rate_limits["property_search"].limit


(***************************************************************************)
(* App: the query tracker and fetch_property_details.  Every call of the  *)
(* database and of the upstream API is one step of the session making it. *)
(***************************************************************************)

MAX_QUERIES == 30

\* the status codes the upstream API answers with
AppAnswers == {200, 404, 500}

AllOut == \A s \in Sessions : apc[s] = "out"

AtCapStrict(count) == count > MAX_QUERIES

\* fetch_property_details: if usage >= MAX_QUERIES
AtCap(count) == count >= MAX_QUERIES

\* get_user_usage: the stored count, after inserting a row with 0 where there was none
StoredUsage(tbl, email) == IF tbl[email] = NoRow THEN 0 ELSE tbl[email]

GetUserUsage(tbl, email) == [tbl EXCEPT ![email] = StoredUsage(tbl, email)]

\* fetch_property_details: usage = get_user_usage(email)
FetchStart(s, email) ==
    /\ apc[s] = "out"
    /\ usage' = GetUserUsage(usage, email)
    /\ aloc' = [aloc EXCEPT ![s] = [email |-> email, usage |-> StoredUsage(usage, email),
                                    current |-> 0]]
    /\ apc' = [apc EXCEPT ![s] = "check"]
    /\ UNCHANGED <<fetched, sent>>

\* fetch_property_details: the cap is reached, st.error and return None
CapReached(s) ==
    /\ apc[s] = "check"
    /\ AtCap(aloc[s].usage)
    /\ apc' = [apc EXCEPT ![s] = "out"]
    /\ aloc' = [aloc EXCEPT ![s] = NoLocals]
    /\ UNCHANGED <<usage, fetched, sent>>

\* fetch_property_details: requests.get is sent
SendRequest(s) ==
    /\ apc[s] = "check"
    /\ ~AtCap(aloc[s].usage)
    /\ apc' = [apc EXCEPT ![s] = "net"]
    /\ sent' = [sent EXCEPT ![aloc[s].email] = usage[aloc[s].email]]
    /\ UNCHANGED <<usage, aloc, fetched>>

\* fetch_property_details: the answer; only status 200 goes on to increment_usage
AppAnswer(s, code) ==
    /\ apc[s] = "net"
    /\ IF code = 200
       THEN /\ apc' = [apc EXCEPT ![s] = "inc"]
            /\ fetched' = [fetched EXCEPT ![aloc[s].email] = @ + 1]
            /\ UNCHANGED aloc
       ELSE /\ apc' = [apc EXCEPT ![s] = "out"]
            /\ aloc' = [aloc EXCEPT ![s] = NoLocals]
            /\ UNCHANGED fetched
    /\ UNCHANGED <<usage, sent>>

\* fetch_property_details: requests.get raises and nothing catches it
AppRaises(s) ==
    /\ apc[s] = "net"
    /\ apc' = [apc EXCEPT ![s] = "out"]
    /\ aloc' = [aloc EXCEPT ![s] = NoLocals]
    /\ UNCHANGED <<usage, fetched, sent>>

\* increment_usage: current = get_user_usage(email)
IncrementRead(s) ==
    /\ apc[s] = "inc"
    /\ usage' = GetUserUsage(usage, aloc[s].email)
    /\ aloc' = [aloc EXCEPT ![s].current = StoredUsage(usage, aloc[s].email)]
    /\ apc' = [apc EXCEPT ![s] = "write"]
    /\ UNCHANGED <<fetched, sent>>

\* increment_usage: update queries = current + 1, and fetch_property_details returns
IncrementWrite(s) ==
    /\ apc[s] = "write"
    /\ usage' = [usage EXCEPT ![aloc[s].email] = aloc[s].current + 1]
    /\ apc' = [apc EXCEPT ![s] = "out"]
    /\ aloc' = [aloc EXCEPT ![s] = NoLocals]
    /\ UNCHANGED <<fetched, sent>>

appFrame ==
    UNCHANGED <<now, rate_limiter, admitted, clientVars, threadVars, searchVars,
                userCacheVars, ledgerVars, sharedVars, envVars, callVars, loginVars,
                stmtVars>>

\* the steps of a call that has begun
AppStep(s) ==
    \/ CapReached(s)
    \/ SendRequest(s)
    \/ \E code \in AppAnswers : AppAnswer(s, code)
    \/ AppRaises(s)
    \/ IncrementRead(s)
    \/ IncrementWrite(s)

\* calls of fetch_property_details made one after another
AppNext ==
    /\ \/ \E s \in Sessions, email \in Emails : AllOut /\ FetchStart(s, email)
       \/ \E s \in Sessions : AppStep(s)
    /\ appFrame

SpecApp == Init /\ [][AppNext]_vars

\* C35: for calls made one after another, no upstream request is sent once the stored
\* count is at least MAX_QUERIES, the stored count grows by exactly 1 on each answer
\* 200 and is left alone by any other answer, and it never exceeds MAX_QUERIES
C35_SequentialCap ==
    /\ [](\A email \in Emails : usage[email] <= MAX_QUERIES /\ sent[email] < MAX_QUERIES)
    /\ [][\A s \in Sessions :
            /\ (apc[s] = "check" /\ apc'[s] = "net") =>
                   usage[aloc[s].email] < MAX_QUERIES
            /\ (apc[s] = "check" /\ usage[aloc[s].email] >= MAX_QUERIES) =>
                   apc'[s] = "out"
            /\ (apc[s] = "net" /\ apc'[s] = "out") => usage' = usage
            /\ (apc[s] = "net" /\ apc'[s] = "inc") => usage' = usage
            /\ (apc[s] = "write" /\ apc'[s] = "out") =>
                   /\ usage'[aloc[s].email] = aloc[s].usage + 1
                   /\ usage'[aloc[s].email] = usage[aloc[s].email] + 1
                   /\ \A other \in Emails \ {aloc[s].email} : usage'[other] = usage[other]
         ]_vars

\* a call finds the stored count at the cap after the thirtieth answer 200
C35_Witness ==
    /\ apc["s1"] = "check"
    /\ aloc["s1"].email = "a@x"
    /\ usage["a@x"] = MAX_QUERIES
    /\ fetched["a@x"] = MAX_QUERIES
    /\ sent["a@x"] = MAX_QUERIES - 1


(***************************************************************************)
(* App: two sessions of the same user.  Streamlit runs each session's     *)
(* script in a thread of its own, so the steps of two calls interleave.   *)
(***************************************************************************)

MaxRaceFetches == 3

\* the sessions inside fetch_property_details all belong to the user
SameUser(email) == \A s \in Sessions : apc[s] # "out" => aloc[s].email = email

\* a second call of the same user may begin while the first is in progress
RaceStart(s, email) ==
    /\ ~AllOut
    /\ SameUser(email)
    /\ fetched[email] < MaxRaceFetches
    /\ FetchStart(s, email)

AppRaceNext ==
    /\ \/ \E s \in Sessions, email \in Emails : AllOut /\ FetchStart(s, email)
       \/ \E s \in Sessions, email \in Emails : RaceStart(s, email)
       \/ \E s \in Sessions : AppStep(s)
    /\ appFrame

SpecAppRace == Init /\ [][AppRaceNext]_vars

\* no increment_usage of the user is between its read and its write
NoIncrementPending(email) ==
    \A s \in Sessions : apc[s] \in {"inc", "write"} => aloc[s].email # email

\* C36: the stored count equals the number of successful upstream fetches of the user,
\* also when two successful fetches of the user run increment_usage concurrently
C36_NoLostUpdates ==
    \A email \in Emails :
        NoIncrementPending(email) => StoredUsage(usage, email) = fetched[email]


(***************************************************************************)
(* login: the session state, handle_login and the logout of login_page.   *)
(* A string is the sequence of its words and blanks; a word keeps its     *)
(* case.                                                                   *)
(***************************************************************************)

MAX_LOGIN_ATTEMPTS == 5

\* the keys of AUTHORIZED_ROLES
AUTHORIZED_ROLES == {<<"subscriber">>, <<"administrator">>}

\* str.lower on a word or a blank
LowerWord(w) ==
    CASE w \in {"Subscriber", "SUBSCRIBER"} -> "subscriber"
      [] w \in {"Administrator", "ADMINISTRATOR"} -> "administrator"
      [] w = "Editor" -> "editor"
      [] OTHER -> w

\* str.lower
Lower(text) == [i \in DOMAIN text |-> LowerWord(text[i])]

\* what auth.get_user_role may return; <<>> is a falsy answer, None or ""
Roles ==
    {<<>>, <<" ">>, <<"subscriber">>, <<"Subscriber">>, <<"SUBSCRIBER">>,
     <<" ", "subscriber">>, <<"Subscriber", " ">>, <<"administrator">>,
     <<"ADMINISTRATOR">>, <<" ", "Administrator", " ">>, <<"editor">>, <<"Editor">>}

\* what auth.get_token may return
TokenValues == {"t1", "t2", "t3"}

\* how the calls of the identity provider end: get_token raises or returns a falsy
\* token, verify_token raises or returns False, get_user_role raises, or every call
\* answers
LoginOutcomes ==
    {"get_token_raises", "no_token", "verify_raises", "verify_false", "role_raises", "ok"}

\* the calls of the identity provider made before handle_login leaves the try block
ProviderCalls(outcome) ==
    CASE outcome \in {"get_token_raises", "no_token"} -> 1
      [] outcome \in {"verify_raises", "verify_false"} -> 2
      [] OTHER -> 3

\* validate_user_authorization: is_authorized
IsAuthorized(role) ==
    /\ role # <<>>
    /\ Strip(Lower(role)) \in AUTHORIZED_ROLES

CheckLoginAttemptsStrict(attempts) == attempts > MAX_LOGIN_ATTEMPTS

\* check_login_attempts
CheckLoginAttempts(attempts) == attempts >= MAX_LOGIN_ATTEMPTS

\* history: how a handler ended, on which answers, and the counter it found
LoginRet(result, outcome, role) ==
    [result |-> result, outcome |-> outcome, role |-> role, before |-> login_attempts]

loginFrame ==
    UNCHANGED <<now, rate_limiter, admitted, clientVars, threadVars, searchVars,
                userCacheVars, ledgerVars, sharedVars, envVars, callVars, appVars,
                stmtVars>>

\* handle_login; st.rerun ends the script run on success, past the except clause
HandleLogin(outcome, role, tok) ==
    /\ ~authenticated
    /\ IF CheckLoginAttempts(login_attempts)
       THEN /\ idp_calls' = 0
            /\ login_ret' = LoginRet("locked", "none", <<>>)
            /\ UNCHANGED <<authenticated, user_role, token, login_attempts>>
       ELSE /\ idp_calls' = ProviderCalls(outcome)
            /\ IF outcome = "ok" /\ IsAuthorized(role)
               THEN /\ login_attempts' = 0
                    /\ authenticated' = TRUE
                    /\ user_role' = Lower(role)
                    /\ token' = tok
                    /\ login_ret' = LoginRet("success", outcome, role)
               ELSE /\ login_attempts' = login_attempts + 1
                    /\ login_ret' = LoginRet("failed", outcome,
                                              IF outcome = "ok" THEN role ELSE <<>>)
                    /\ UNCHANGED <<authenticated, user_role, token>>
    /\ loginFrame

\* login_page: the form is submitted with a username and a password
SubmitLogin(outcome, role, tok) ==
    /\ ~CheckLoginAttempts(login_attempts)
    /\ HandleLogin(outcome, role, tok)

\* login_page: the logout button, and the defaults the rerun restores
Logout ==
    /\ authenticated
    /\ authenticated' = FALSE
    /\ user_role' = None
    /\ token' = None
    /\ login_attempts' = 0
    /\ idp_calls' = 0
    /\ login_ret' = LoginRet("logout", "none", <<>>)
    /\ loginFrame

LoginNext ==
    \/ \E outcome \in LoginOutcomes, role \in Roles, tok \in TokenValues :
           SubmitLogin(outcome, role, tok)
    \/ \E outcome \in LoginOutcomes, role \in Roles, tok \in TokenValues :
           HandleLogin(outcome, role, tok)
    \/ Logout

SpecLogin == Init /\ [][LoginNext]_vars

\* C37: login_attempts stays within 0..MAX_LOGIN_ATTEMPTS; a handle_login that fails
\* adds exactly 1, a successful login and a logout reset it to 0, and at
\* MAX_LOGIN_ATTEMPTS handle_login gives up without a call of the identity provider
C37_Lockout ==
    /\ [](login_attempts >= 0 /\ login_attempts <= MAX_LOGIN_ATTEMPTS)
    /\ [][/\ \A outcome \in LoginOutcomes, role \in Roles, tok \in TokenValues :
                HandleLogin(outcome, role, tok) =>
                    IF login_attempts = MAX_LOGIN_ATTEMPTS
                    THEN /\ idp_calls' = 0
                         /\ login_ret'.result = "locked"
                         /\ ~authenticated'
                         /\ login_attempts' = login_attempts
                    ELSE /\ idp_calls' >= 1
                         /\ authenticated' => login_attempts' = 0
                         /\ ~authenticated' => login_attempts' = login_attempts + 1
          /\ Logout => login_attempts' = 0
         ]_vars

\* the fifth failure in a row has locked the session, and the next call of
\* handle_login has given up without a call of the identity provider
C37_Witness ==
    /\ login_attempts = MAX_LOGIN_ATTEMPTS
    /\ login_ret.result = "locked"
    /\ idp_calls = 0
    /\ ~authenticated

\* a login succeeds after failures and resets the counter
C37_ResetWitness ==
    /\ authenticated
    /\ login_attempts = 0
    /\ login_ret.result = "success"
    /\ login_ret.before = MAX_LOGIN_ATTEMPTS - 1


\* C38: whenever authenticated is True the stored user_role is a key of
\* AUTHORIZED_ROLES, whatever the case of the role string the identity provider
\* returned and whatever blanks surround it
C38_AuthenticatedRoleIsKey ==
    authenticated => user_role \in AUTHORIZED_ROLES


(***************************************************************************)
(* MemoryCache, statement by statement: two threads call get, set and     *)
(* invalidate; each statement of a method is a step of the thread that    *)
(* holds _lock.  An exception leaves the "with" block and releases it.    *)
(***************************************************************************)

MaxStmtCalls == 3

\* the clock stops advancing here (ticks)
StmtMaxTime == 6100

StmtKeys == {<<"a", "b">>, <<"b", "c">>}

\* the patterns of invalidate; <<>> is a pattern left out, None
StmtPatterns == {<<"b">>, <<"a">>, <<>>}

StmtValues == {"v1"}

StmtCategory == "api_usage"

StmtDeltas == {Sec(TTL(StmtCategory)) + 1}

stmtFrame ==
    UNCHANGED <<rate_limiter, admitted, ledger, pc, req, ret, nreq, attempt, start_time,
                delay, nnet, netCalls, rlChecks, tracked, sleeps, responses, writer,
                set_category, threadVars, searchVars, userCacheVars, ledgerVars, th,
                val_by, ts_by, envVars, callVars, appVars, loginVars>>

\* a thread calls a method of the cache
StmtCall(t, method, k, category, value) ==
    /\ mc[t].pc = "idle"
    /\ mc[t].n < MaxStmtCalls
    /\ mc' = [mc EXCEPT ![t] = [NoCall(mc[t].n + 1) EXCEPT
                                   !.pc = "acquire", !.method = method, !.key = k,
                                   !.category = category, !.value = value]]
    /\ UNCHANGED <<now, cache, timestamps, stats, lock>>
    /\ stmtFrame

\* the first statement of each method's "with" block
FirstStatement(method) ==
    CASE method = "get" -> "get_test"
      [] method = "set" -> "set_cache"
      [] OTHER -> "inv_list"

StmtAcquireUnlocked(t) ==
    /\ mc[t].pc = "acquire"
    /\ lock' = t
    /\ mc' = [mc EXCEPT ![t].pc = FirstStatement(mc[t].method)]
    /\ UNCHANGED <<now, cache, timestamps, stats>>
    /\ stmtFrame

\* "with self._lock:"
StmtAcquire(t) ==
    /\ mc[t].pc = "acquire"
    /\ lock = "free"
    /\ lock' = t
    /\ mc' = [mc EXCEPT ![t].pc = FirstStatement(mc[t].method)]
    /\ UNCHANGED <<now, cache, timestamps, stats>>
    /\ stmtFrame

\* the thread leaves the "with" block, by a return or by a KeyError
Leaves(t, result, raised) ==
    /\ lock' = LockAfterWith(t)
    /\ mc' = [mc EXCEPT ![t] = [@ EXCEPT !.pc = "idle", !.result = result,
                                         !.raised = raised, !.todo = {}]]

\* get: total_requests += 1; if key not in self._cache: misses += 1; return None
GetTest(t) ==
    /\ mc[t].pc = "get_test"
    /\ IF mc[t].key \notin DOMAIN cache
       THEN /\ stats' = [stats EXCEPT ![mc[t].category] = CountGet(@, FALSE)]
            /\ Leaves(t, "miss", FALSE)
       ELSE /\ stats' = [stats EXCEPT ![mc[t].category].total_requests = @ + 1]
            /\ mc' = [mc EXCEPT ![t].pc = "get_ttl"]
            /\ UNCHANGED lock
    /\ UNCHANGED <<now, cache, timestamps>>
    /\ stmtFrame

\* get: if time.time() - self._timestamps[key] > ttl, else hits += 1 and return
GetTtl(t) ==
    /\ mc[t].pc = "get_ttl"
    /\ IF mc[t].key \notin DOMAIN timestamps
       THEN /\ Leaves(t, "KeyError", TRUE)
            /\ UNCHANGED stats
       ELSE IF now - timestamps[mc[t].key] > Sec(TTL(mc[t].category))
       THEN /\ mc' = [mc EXCEPT ![t].pc = "get_del_cache"]
            /\ UNCHANGED <<lock, stats>>
       ELSE /\ stats' = [stats EXCEPT ![mc[t].category].hits = @ + 1]
            /\ Leaves(t, "hit", FALSE)
    /\ UNCHANGED <<now, cache, timestamps>>
    /\ stmtFrame

\* get: del self._cache[key]
GetDelCache(t) ==
    /\ mc[t].pc = "get_del_cache"
    /\ IF mc[t].key \notin DOMAIN cache
       THEN /\ Leaves(t, "KeyError", TRUE)
            /\ UNCHANGED cache
       ELSE /\ cache' = Remove(cache, mc[t].key)
            /\ mc' = [mc EXCEPT ![t].pc = "get_del_ts"]
            /\ UNCHANGED lock
    /\ UNCHANGED <<now, timestamps, stats>>
    /\ stmtFrame

\* get: del self._timestamps[key]; misses += 1; return None
GetDelTs(t) ==
    /\ mc[t].pc = "get_del_ts"
    /\ IF mc[t].key \notin DOMAIN timestamps
       THEN /\ Leaves(t, "KeyError", TRUE)
            /\ UNCHANGED <<timestamps, stats>>
       ELSE /\ timestamps' = Remove(timestamps, mc[t].key)
            /\ stats' = [stats EXCEPT ![mc[t].category].misses = @ + 1]
            /\ Leaves(t, "expired", FALSE)
    /\ UNCHANGED <<now, cache>>
    /\ stmtFrame

\* set: self._cache[key] = value
SetCache(t) ==
    /\ mc[t].pc = "set_cache"
    /\ cache' = Put(cache, mc[t].key, mc[t].value)
    /\ mc' = [mc EXCEPT ![t].pc = "set_ts"]
    /\ UNCHANGED <<now, timestamps, stats, lock>>
    /\ stmtFrame

\* set: self._timestamps[key] = time.time()
SetTs(t) ==
    /\ mc[t].pc = "set_ts"
    /\ timestamps' = Put(timestamps, mc[t].key, now)
    /\ Leaves(t, "set", FALSE)
    /\ UNCHANGED <<now, cache, stats>>
    /\ stmtFrame

\* invalidate: keys_to_remove; without a pattern nothing is removed, as the branch of
\* the category is "pass"
InvList(t) ==
    /\ mc[t].pc = "inv_list"
    /\ LET keys_to_remove ==
               IF mc[t].key = <<>> THEN {}
               ELSE {k \in DOMAIN cache : Contains(mc[t].key, k)} IN
       IF keys_to_remove = {}
       THEN Leaves(t, "invalidated", FALSE)
       ELSE /\ mc' = [mc EXCEPT ![t].pc = "inv_del_cache", ![t].todo = keys_to_remove]
            /\ UNCHANGED lock
    /\ UNCHANGED <<now, cache, timestamps, stats>>
    /\ stmtFrame

\* invalidate: del self._cache[key], for the next key of the list in some order
InvDelCache(t, k) ==
    /\ mc[t].pc = "inv_del_cache"
    /\ k \in mc[t].todo
    /\ IF k \notin DOMAIN cache
       THEN /\ Leaves(t, "KeyError", TRUE)
            /\ UNCHANGED cache
       ELSE /\ cache' = Remove(cache, k)
            /\ mc' = [mc EXCEPT ![t].pc = "inv_del_ts", ![t].cur = k]
            /\ UNCHANGED lock
    /\ UNCHANGED <<now, timestamps, stats>>
    /\ stmtFrame

\* invalidate: del self._timestamps[key], and the loop goes on or ends
InvDelTs(t) ==
    /\ mc[t].pc = "inv_del_ts"
    /\ IF mc[t].cur \notin DOMAIN timestamps
       THEN /\ Leaves(t, "KeyError", TRUE)
            /\ UNCHANGED timestamps
       ELSE /\ timestamps' = Remove(timestamps, mc[t].cur)
            /\ IF mc[t].todo = {mc[t].cur}
               THEN Leaves(t, "invalidated", FALSE)
               ELSE /\ mc' = [mc EXCEPT ![t].pc = "inv_del_cache",
                                        ![t].todo = @ \ {mc[t].cur}, ![t].cur = <<>>]
                    /\ UNCHANGED lock
    /\ UNCHANGED <<now, cache, stats>>
    /\ stmtFrame

StmtTick(d) ==
    /\ now + d <= StmtMaxTime
    /\ now' = now + d
    /\ UNCHANGED <<cache, timestamps, stats, lock, mc>>
    /\ stmtFrame

StmtNext ==
    \/ \E t \in Threads, k \in StmtKeys : StmtCall(t, "get", k, StmtCategory, "none")
    \/ \E t \in Threads, k \in StmtKeys, v \in StmtValues :
           StmtCall(t, "set", k, StmtCategory, v)
    \/ \E t \in Threads, p \in StmtPatterns :
           StmtCall(t, "invalidate", p, StmtCategory, "none")
    \/ \E t \in Threads : StmtAcquire(t)
    \/ \E t \in Threads : GetTest(t)
    \/ \E t \in Threads : GetTtl(t)
    \/ \E t \in Threads : GetDelCache(t)
    \/ \E t \in Threads : GetDelTs(t)
    \/ \E t \in Threads : SetCache(t)
    \/ \E t \in Threads : SetTs(t)
    \/ \E t \in Threads : InvList(t)
    \/ \E t \in Threads, k \in StmtKeys : InvDelCache(t, k)
    \/ \E t \in Threads : InvDelTs(t)
    \/ \E d \in StmtDeltas : StmtTick(d)

SpecStmt == Init /\ [][StmtNext]_vars

\* the one key a method is working on between its two statements
InProgress(t) ==
    CASE mc[t].pc = "set_ts" -> {mc[t].key}
      [] mc[t].pc = "get_del_ts" -> {mc[t].key}
      [] mc[t].pc = "inv_del_ts" -> {mc[t].cur}
      [] OTHER -> {}

\* C39: whenever no method of the cache is running, _cache and _timestamps have the
\* same keys; no get, set or invalidate raises a KeyError; and a key removed by
\* expiry or by invalidate is gone from both maps when the method returns
C39_SameKeys ==
    /\ [](/\ lock = "free" => DOMAIN cache = DOMAIN timestamps
          /\ \A t \in Threads :
                /\ ~mc[t].raised
                /\ lock = t =>
                       /\ DOMAIN cache \ InProgress(t) = DOMAIN timestamps \ InProgress(t)
                       /\ \A u \in Threads \ {t} : mc[u].pc \in {"idle", "acquire"})
    /\ [][\A t \in Threads :
            /\ (mc[t].pc = "get_del_ts" /\ mc'[t].pc = "idle") =>
                   /\ mc[t].key \notin DOMAIN cache'
                   /\ mc[t].key \notin DOMAIN timestamps'
            /\ (mc[t].pc = "inv_del_ts" /\ mc'[t].pc = "idle") =>
                   \A k \in mc[t].todo : k \notin DOMAIN cache' \cup DOMAIN timestamps'
         ]_vars

\* a set is between its two statements while the other thread waits for the lock with
\* a get of the same key
C39_Witness ==
    /\ mc["t1"].pc = "set_ts"
    /\ mc["t2"].pc = "acquire"
    /\ mc["t2"].method = "get"
    /\ mc["t2"].key = mc["t1"].key
    /\ mc["t1"].key \in DOMAIN cache \ DOMAIN timestamps

\* one thread's get has removed an expired entry and the other's invalidate has
\* removed two entries
C39_RemovalWitness ==
    /\ lock = "free"
    /\ mc["t1"].result = "expired"
    /\ mc["t2"].result = "invalidated"
    /\ mc["t2"].key = <<"b">>
    /\ DOMAIN cache = {}
    /\ DOMAIN timestamps = {}
    /\ now > 0

====
